---- MODULE Spec2Model ----
(***************************************************************************)
(* Model of the stock-warrant-analyzer calculation core                   *)
(* (utils/calculations.ts, hooks/useWarrantCalculations.ts,                *)
(* hooks/useScenarioCalculations.ts and the pages that inline the same     *)
(* arithmetic).                                                            *)
(*                                                                         *)
(* Numbers.  The code computes with JavaScript numbers.  A number is       *)
(* modelled as a record [n, d]:                                            *)
(*    d > 0   the exact rational n/d in lowest terms                       *)
(*    d = 0   a non-finite value: n = 1 is Infinity, n = -1 is -Infinity,  *)
(*            n = 0 is NaN                                                 *)
(*    d = -1  the value `undefined` (an omitted optional argument)         *)
(* Finite arithmetic is exact (binary rounding and the sign of zero are    *)
(* abstracted away); division by zero, Infinity and NaN follow IEEE-754    *)
(* as JavaScript does: nothing throws, x/0 is +-Infinity, 0/0 is NaN, NaN  *)
(* is contagious and compares false with everything.                       *)
(***************************************************************************)
EXTENDS Integers, Sequences, FiniteSets, TLC

VARIABLES pc, args, ret

(* The scenario stores (stores/useStockStore.ts, stores/useWarrantStore.ts) *)
(* and the clock their generateId reads.                                    *)
VARIABLES now, storeInUse, stockStore, warrantStore

(* An earlier call of a calculation function with its output, kept by an   *)
(* observer who compares it with a later call of the same function.        *)
VARIABLES earlier

(* A component using useLocalStorage(key, initialValue): the item stored    *)
(* under the key, the hook's parameter, its two state cells as of the last *)
(* commit, the queued state updates, the effects still to run, and the     *)
(* last call the component made on the hook.                               *)
VARIABLES localStorage, initialValue, mounted, storedValue, isHydrated, updateQueue, pendingEffects, lastCall

callVars == <<pc, args, ret>>

storeVars == <<now, storeInUse, stockStore, warrantStore>>

coreVars == <<earlier>>

\* new Date(): the instant, in minutes of Vietnam wall-clock time since
\* Sunday 00:00
VARIABLES wallClock

clockVars == <<wallClock>>

hookVars == <<localStorage, initialValue, mounted, storedValue, isHydrated, updateQueue, pendingEffects, lastCall>>

vars == <<callVars, storeVars, coreVars, hookVars, clockVars>>

nonCallVars == <<storeVars, coreVars, hookVars, clockVars>>

nonStoreVars == <<callVars, coreVars, hookVars, clockVars>>

nonCoreVars == <<storeInUse, stockStore, warrantStore, hookVars, clockVars>>

nonHookVars == <<callVars, storeVars, coreVars, clockVars>>

nonClockVars == <<storeVars, coreVars, hookVars>>

----------------------------------------------------------------------------
(* JavaScript number arithmetic *)

RECURSIVE GCD(_, _)
GCD(a, b) == IF b = 0 THEN a ELSE GCD(b, a % b)

Abs(a) == IF a < 0 THEN -a ELSE a

\* the rational n/d (d > 0) in lowest terms
R(n, d) == LET g == GCD(Abs(n), d) IN [n |-> n \div g, d |-> d \div g]

N(i) == [n |-> i, d |-> 1]

NaN == [n |-> 0, d |-> 0]

Undefined == [n |-> 0, d |-> -1]

\* Infinity (s = 1), -Infinity (s = -1); s = 0 yields NaN
Inf(s) == [n |-> s, d |-> 0]

IsNaN(x) == x = NaN

IsFinite(x) == x.d > 0

Sign(x) == IF x.n > 0 THEN 1 ELSE IF x.n < 0 THEN -1 ELSE 0

Neg(x) == [n |-> -x.n, d |-> x.d]

Add(x, y) ==
    IF IsNaN(x) \/ IsNaN(y) THEN NaN
    ELSE IF x.d = 0 THEN (IF y.d = 0 /\ y.n # x.n THEN NaN ELSE x)
    ELSE IF y.d = 0 THEN y
    ELSE LET g == GCD(x.d, y.d)
         IN  R(x.n * (y.d \div g) + y.n * (x.d \div g), (x.d \div g) * y.d)

Sub(x, y) == Add(x, Neg(y))

\* the product of two finite rationals, reduced crosswise before multiplying
MulFin(x, y) ==
    LET g1 == GCD(Abs(x.n), y.d)
        g2 == GCD(Abs(y.n), x.d)
    IN  R((x.n \div g1) * (y.n \div g2), (x.d \div g2) * (y.d \div g1))

Mul(x, y) ==
    IF IsNaN(x) \/ IsNaN(y) THEN NaN
    ELSE IF x.d = 0 \/ y.d = 0 THEN Inf(Sign(x) * Sign(y))
    ELSE MulFin(x, y)

Div(x, y) ==
    IF IsNaN(x) \/ IsNaN(y) THEN NaN
    ELSE IF x.d = 0 THEN (IF y.d = 0 THEN NaN
                          ELSE Inf(x.n * (IF y.n < 0 THEN -1 ELSE 1)))
    ELSE IF y.d = 0 THEN N(0)
    ELSE IF y.n = 0 THEN Inf(Sign(x))
    ELSE MulFin(x, [n |-> y.d * Sign(y), d |-> Abs(y.n)])

\* x < y; false when either side is NaN
Lt(x, y) ==
    /\ ~IsNaN(x)
    /\ ~IsNaN(y)
    /\ x # y
    /\ IF x.d = 0 THEN x.n < 0
       ELSE IF y.d = 0 THEN y.n > 0
       ELSE LET g == GCD(x.d, y.d)
            IN  x.n * (y.d \div g) < y.n * (x.d \div g)

Gt(x, y) == Lt(y, x)

Le(x, y) == ~IsNaN(x) /\ ~IsNaN(y) /\ (x = y \/ Lt(x, y))

Ge(x, y) == Le(y, x)

MathMax(x, y) ==
    IF IsNaN(x) \/ IsNaN(y) THEN NaN
    ELSE IF Lt(x, y) THEN y ELSE x

MathMin(x, y) ==
    IF IsNaN(x) \/ IsNaN(y) THEN NaN
    ELSE IF Lt(y, x) THEN y ELSE x

\* truthiness of a number-or-undefined: 0, NaN and undefined are falsy
Truthy(x) == x.n # 0

\* a default parameter value applies exactly when the argument is undefined
Dflt(x, dv) == IF x = Undefined THEN dv ELSE x

----------------------------------------------------------------------------
(* utils/calculations.ts *)

DEFAULT_BUY_FEE_PERCENT == R(15, 100)

DEFAULT_SELL_FEE_PERCENT == R(15, 100)

DEFAULT_SELL_TAX_PERCENT == R(1, 10)

\* the buy fee taken off the principal
calculateCostFeeDeducted(buyPrice, quantity, buyFeePercentArg) ==
    LET buyFeePercent == Dflt(buyFeePercentArg, DEFAULT_BUY_FEE_PERCENT)
        principal == Mul(buyPrice, quantity)
        buyFee == Div(Mul(principal, buyFeePercent), N(100))
    IN  [principal |-> principal,
         buyFee |-> buyFee,
         totalCost |-> Sub(principal, buyFee)]

calculateCost(buyPrice, quantity, buyFeePercentArg) ==
    LET buyFeePercent == Dflt(buyFeePercentArg, DEFAULT_BUY_FEE_PERCENT)
        principal == Mul(buyPrice, quantity)
        buyFee == Div(Mul(principal, buyFeePercent), N(100))
    IN  [principal |-> principal,
         buyFee |-> buyFee,
         totalCost |-> Add(principal, buyFee)]

calculateRevenueFractionRates(sellPrice, quantity, sellFeePercentArg, taxPercentArg) ==
    LET sellFeePercent == Dflt(sellFeePercentArg, DEFAULT_SELL_FEE_PERCENT)
        taxPercent == Dflt(taxPercentArg, DEFAULT_SELL_TAX_PERCENT)
        grossRevenue == Mul(sellPrice, quantity)
        sellFee == Mul(grossRevenue, sellFeePercent)
        sellTax == Mul(grossRevenue, taxPercent)
    IN  [grossRevenue |-> grossRevenue,
         sellFee |-> sellFee,
         sellTax |-> sellTax,
         netRevenue |-> Sub(Sub(grossRevenue, sellFee), sellTax)]

calculateRevenue(sellPrice, quantity, sellFeePercentArg, taxPercentArg) ==
    LET sellFeePercent == Dflt(sellFeePercentArg, DEFAULT_SELL_FEE_PERCENT)
        taxPercent == Dflt(taxPercentArg, DEFAULT_SELL_TAX_PERCENT)
        grossRevenue == Mul(sellPrice, quantity)
        sellFee == Div(Mul(grossRevenue, sellFeePercent), N(100))
        sellTax == Div(Mul(grossRevenue, taxPercent), N(100))
    IN  [grossRevenue |-> grossRevenue,
         sellFee |-> sellFee,
         sellTax |-> sellTax,
         netRevenue |-> Sub(Sub(grossRevenue, sellFee), sellTax)]

\* a trade at exactly zero profit counted as a profit
calculateProfitLossNonStrict(buyPrice, sellPrice, quantity, buyFeePercent, sellFeePercent, taxPercent) ==
    LET cost == calculateCost(buyPrice, quantity, buyFeePercent)
        revenue == calculateRevenue(sellPrice, quantity, sellFeePercent, taxPercent)
        profit == Sub(revenue.netRevenue, cost.totalCost)
        profitPercent == IF Gt(cost.totalCost, N(0))
                         THEN Mul(Div(profit, cost.totalCost), N(100))
                         ELSE N(0)
    IN  [cost |-> cost,
         revenue |-> revenue,
         profit |-> profit,
         profitPercent |-> profitPercent,
         isProfit |-> Ge(profit, N(0))]

\* the percentage computed without the zero-cost guard
calculateProfitLossUnguarded(buyPrice, sellPrice, quantity, buyFeePercent, sellFeePercent, taxPercent) ==
    LET cost == calculateCost(buyPrice, quantity, buyFeePercent)
        revenue == calculateRevenue(sellPrice, quantity, sellFeePercent, taxPercent)
        profit == Sub(revenue.netRevenue, cost.totalCost)
        profitPercent == Mul(Div(profit, cost.totalCost), N(100))
    IN  [cost |-> cost,
         revenue |-> revenue,
         profit |-> profit,
         profitPercent |-> profitPercent,
         isProfit |-> Gt(profit, N(0))]

calculateProfitLoss(buyPrice, sellPrice, quantity, buyFeePercent, sellFeePercent, taxPercent) ==
    LET cost == calculateCost(buyPrice, quantity, buyFeePercent)
        revenue == calculateRevenue(sellPrice, quantity, sellFeePercent, taxPercent)
        profit == Sub(revenue.netRevenue, cost.totalCost)
        profitPercent == IF Gt(cost.totalCost, N(0))
                         THEN Mul(Div(profit, cost.totalCost), N(100))
                         ELSE N(0)
    IN  [cost |-> cost,
         revenue |-> revenue,
         profit |-> profit,
         profitPercent |-> profitPercent,
         isProfit |-> Gt(profit, N(0))]

calculateBreakEvenDividesByRatio(cwPrice, conversionRatio, exercisePrice, targetUnderlyingPrice) ==
    LET breakEvenPrice == Add(Div(cwPrice, conversionRatio), exercisePrice)
        isProfitable == IF Truthy(targetUnderlyingPrice)
                        THEN Gt(targetUnderlyingPrice, breakEvenPrice)
                        ELSE FALSE
        profitMargin == IF Truthy(targetUnderlyingPrice)
                        THEN Sub(targetUnderlyingPrice, breakEvenPrice)
                        ELSE N(0)
        profitMarginPercent == IF Gt(breakEvenPrice, N(0))
                               THEN Mul(Div(profitMargin, breakEvenPrice), N(100))
                               ELSE N(0)
    IN  [breakEvenPrice |-> breakEvenPrice,
         isProfitable |-> isProfitable,
         profitMargin |-> profitMargin,
         profitMarginPercent |-> profitMarginPercent]

\* an omitted target coerced to 0 instead of being skipped
calculateBreakEvenNoTargetGuard(cwPrice, conversionRatio, exercisePrice, targetUnderlyingPrice) ==
    LET breakEvenPrice == Add(Mul(cwPrice, conversionRatio), exercisePrice)
        target == Dflt(targetUnderlyingPrice, N(0))
        profitMargin == Sub(target, breakEvenPrice)
        profitMarginPercent == IF Gt(breakEvenPrice, N(0))
                               THEN Mul(Div(profitMargin, breakEvenPrice), N(100))
                               ELSE N(0)
    IN  [breakEvenPrice |-> breakEvenPrice,
         isProfitable |-> Gt(target, breakEvenPrice),
         profitMargin |-> profitMargin,
         profitMarginPercent |-> profitMarginPercent]

calculateBreakEven(cwPrice, conversionRatio, exercisePrice, targetUnderlyingPrice) ==
    LET breakEvenPrice == Add(Mul(cwPrice, conversionRatio), exercisePrice)
        isProfitable == IF Truthy(targetUnderlyingPrice)
                        THEN Gt(targetUnderlyingPrice, breakEvenPrice)
                        ELSE FALSE
        profitMargin == IF Truthy(targetUnderlyingPrice)
                        THEN Sub(targetUnderlyingPrice, breakEvenPrice)
                        ELSE N(0)
        profitMarginPercent == IF Gt(breakEvenPrice, N(0))
                               THEN Mul(Div(profitMargin, breakEvenPrice), N(100))
                               ELSE N(0)
    IN  [breakEvenPrice |-> breakEvenPrice,
         isProfitable |-> isProfitable,
         profitMargin |-> profitMargin,
         profitMarginPercent |-> profitMarginPercent]

\* exercise settled like a market sale: sell fee and sell tax deducted
calculateExerciseValueAsMarketSale(underlyingPrice, exercisePrice, conversionRatio, currentCwPrice, quantityArg, buyPrice, buyFeePercentArg) ==
    LET quantity == Dflt(quantityArg, N(1))
        buyFeePercent == Dflt(buyFeePercentArg, DEFAULT_BUY_FEE_PERCENT)
        rawIntrinsicValue == Div(Sub(underlyingPrice, exercisePrice), conversionRatio)
        intrinsicValue == MathMax(N(0), rawIntrinsicValue)
        isInTheMoney == Gt(underlyingPrice, exercisePrice)
        timeValue == MathMax(N(0), Sub(currentCwPrice, intrinsicValue))
        exerciseProfit ==
            IF buyPrice # Undefined /\ Gt(quantity, N(0))
            THEN calculateProfitLoss(buyPrice, intrinsicValue, quantity, buyFeePercent,
                                     Undefined, Undefined).profit
            ELSE N(0)
    IN  [exerciseValue |-> intrinsicValue,
         isInTheMoney |-> isInTheMoney,
         intrinsicValue |-> intrinsicValue,
         timeValue |-> timeValue,
         exerciseProfit |-> exerciseProfit]

\* time value not floored at 0, in-the-money test not strict
calculateExerciseValueUnfloored(underlyingPrice, exercisePrice, conversionRatio, currentCwPrice, quantityArg, buyPrice, buyFeePercentArg) ==
    LET quantity == Dflt(quantityArg, N(1))
        buyFeePercent == Dflt(buyFeePercentArg, DEFAULT_BUY_FEE_PERCENT)
        rawIntrinsicValue == Div(Sub(underlyingPrice, exercisePrice), conversionRatio)
        intrinsicValue == MathMax(N(0), rawIntrinsicValue)
        isInTheMoney == Gt(underlyingPrice, exercisePrice)
        timeValue == Sub(currentCwPrice, intrinsicValue)
        exerciseProfit ==
            IF buyPrice # Undefined /\ Gt(quantity, N(0))
            THEN Sub(Mul(intrinsicValue, quantity),
                     calculateCost(buyPrice, quantity, buyFeePercent).totalCost)
            ELSE N(0)
    IN  [exerciseValue |-> intrinsicValue,
         isInTheMoney |-> isInTheMoney,
         intrinsicValue |-> intrinsicValue,
         timeValue |-> timeValue,
         exerciseProfit |-> exerciseProfit]

calculateExerciseValue(underlyingPrice, exercisePrice, conversionRatio, currentCwPrice, quantityArg, buyPrice, buyFeePercentArg) ==
    LET quantity == Dflt(quantityArg, N(1))
        buyFeePercent == Dflt(buyFeePercentArg, DEFAULT_BUY_FEE_PERCENT)
        rawIntrinsicValue == Div(Sub(underlyingPrice, exercisePrice), conversionRatio)
        intrinsicValue == MathMax(N(0), rawIntrinsicValue)
        isInTheMoney == Gt(underlyingPrice, exercisePrice)
        timeValue == MathMax(N(0), Sub(currentCwPrice, intrinsicValue))
        exerciseProfit ==
            IF buyPrice # Undefined /\ Gt(quantity, N(0))
            THEN Sub(Mul(intrinsicValue, quantity),
                     calculateCost(buyPrice, quantity, buyFeePercent).totalCost)
            ELSE N(0)
    IN  [exerciseValue |-> intrinsicValue,
         isInTheMoney |-> isInTheMoney,
         intrinsicValue |-> intrinsicValue,
         timeValue |-> timeValue,
         exerciseProfit |-> exerciseProfit]


----------------------------------------------------------------------------
(* hooks/useWarrantCalculations.ts *)

\* bucket boundaries taken inclusively
getTimeValueFactorInclusive(daysToMaturity) ==
    IF daysToMaturity >= 30 THEN N(1)
    ELSE IF daysToMaturity >= 14 THEN R(8, 10)
    ELSE R(5, 10)

\* time value growing by a fifth when maturity is far
getTimeValueFactorGrowing(daysToMaturity) ==
    IF daysToMaturity > 30 THEN R(12, 10)
    ELSE IF daysToMaturity > 14 THEN R(8, 10)
    ELSE R(5, 10)

getTimeValueFactor(daysToMaturity) ==
    IF daysToMaturity > 30 THEN N(1)
    ELSE IF daysToMaturity > 14 THEN R(8, 10)
    ELSE R(5, 10)

\* the decayed time value dropped from the projection
calculateWarrantMetricsNoTimeValue(warrant, underlyingPrice, targetPrice, quantity, feeSettings) ==
    LET breakEvenResult == calculateBreakEven(warrant.current_price, warrant.conversion_ratio,
                                              warrant.exercise_price, targetPrice)
        targetIntrinsicValue ==
            MathMax(N(0), Div(Sub(targetPrice, warrant.exercise_price), warrant.conversion_ratio))
        estimatedSellPrice == MathMax(N(0), targetIntrinsicValue)
        principal == Mul(warrant.current_price, quantity)
        buyFee == Div(Mul(principal, feeSettings.buyFeePercent), N(100))
        totalCost == Add(principal, buyFee)
        grossRevenue == Mul(estimatedSellPrice, quantity)
        sellFee == Div(Mul(grossRevenue, feeSettings.sellFeePercent), N(100))
        sellTax == Div(Mul(grossRevenue, feeSettings.sellTaxPercent), N(100))
        netRevenue == Sub(Sub(grossRevenue, sellFee), sellTax)
        estimatedProfit == Sub(netRevenue, totalCost)
        estimatedProfitPercent == IF Gt(totalCost, N(0))
                                  THEN Mul(Div(estimatedProfit, totalCost), N(100))
                                  ELSE N(0)
        leverage == IF Gt(warrant.current_price, N(0)) /\ Gt(warrant.conversion_ratio, N(0))
                    THEN Div(underlyingPrice, Mul(warrant.current_price, warrant.conversion_ratio))
                    ELSE N(0)
    IN  [breakEven |-> breakEvenResult.breakEvenPrice,
         isProfitable |-> breakEvenResult.isProfitable,
         profitMargin |-> breakEvenResult.profitMargin,
         profitMarginPercent |-> breakEvenResult.profitMarginPercent,
         estimatedProfit |-> estimatedProfit,
         estimatedProfitPercent |-> estimatedProfitPercent,
         totalCost |-> totalCost,
         netRevenue |-> netRevenue,
         leverage |-> leverage] @@ warrant

\* leverage guarded against a zero warrant price only
calculateWarrantMetricsLeverageAnyRatio(warrant, underlyingPrice, targetPrice, quantity, feeSettings) ==
    LET breakEvenResult == calculateBreakEven(warrant.current_price, warrant.conversion_ratio,
                                              warrant.exercise_price, targetPrice)
        currentIntrinsicValue ==
            MathMax(N(0), Div(Sub(underlyingPrice, warrant.exercise_price), warrant.conversion_ratio))
        targetIntrinsicValue ==
            MathMax(N(0), Div(Sub(targetPrice, warrant.exercise_price), warrant.conversion_ratio))
        currentTimeValue == MathMax(N(0), Sub(warrant.current_price, currentIntrinsicValue))
        timeValueFactor == getTimeValueFactor(warrant.days_to_maturity)
        estimatedSellPrice ==
            MathMax(N(0), Add(targetIntrinsicValue, Mul(currentTimeValue, timeValueFactor)))
        principal == Mul(warrant.current_price, quantity)
        buyFee == Div(Mul(principal, feeSettings.buyFeePercent), N(100))
        totalCost == Add(principal, buyFee)
        grossRevenue == Mul(estimatedSellPrice, quantity)
        sellFee == Div(Mul(grossRevenue, feeSettings.sellFeePercent), N(100))
        sellTax == Div(Mul(grossRevenue, feeSettings.sellTaxPercent), N(100))
        netRevenue == Sub(Sub(grossRevenue, sellFee), sellTax)
        estimatedProfit == Sub(netRevenue, totalCost)
        estimatedProfitPercent == IF Gt(totalCost, N(0))
                                  THEN Mul(Div(estimatedProfit, totalCost), N(100))
                                  ELSE N(0)
        leverage == IF Gt(warrant.current_price, N(0))
                    THEN Div(underlyingPrice, Mul(warrant.current_price, warrant.conversion_ratio))
                    ELSE N(0)
    IN  [breakEven |-> breakEvenResult.breakEvenPrice,
         isProfitable |-> breakEvenResult.isProfitable,
         profitMargin |-> breakEvenResult.profitMargin,
         profitMarginPercent |-> breakEvenResult.profitMarginPercent,
         estimatedProfit |-> estimatedProfit,
         estimatedProfitPercent |-> estimatedProfitPercent,
         totalCost |-> totalCost,
         netRevenue |-> netRevenue,
         leverage |-> leverage] @@ warrant

calculateWarrantMetrics(warrant, underlyingPrice, targetPrice, quantity, feeSettings) ==
    LET breakEvenResult == calculateBreakEven(warrant.current_price, warrant.conversion_ratio,
                                              warrant.exercise_price, targetPrice)
        currentIntrinsicValue ==
            MathMax(N(0), Div(Sub(underlyingPrice, warrant.exercise_price), warrant.conversion_ratio))
        targetIntrinsicValue ==
            MathMax(N(0), Div(Sub(targetPrice, warrant.exercise_price), warrant.conversion_ratio))
        currentTimeValue == MathMax(N(0), Sub(warrant.current_price, currentIntrinsicValue))
        timeValueFactor == getTimeValueFactor(warrant.days_to_maturity)
        estimatedSellPrice ==
            MathMax(N(0), Add(targetIntrinsicValue, Mul(currentTimeValue, timeValueFactor)))
        principal == Mul(warrant.current_price, quantity)
        buyFee == Div(Mul(principal, feeSettings.buyFeePercent), N(100))
        totalCost == Add(principal, buyFee)
        grossRevenue == Mul(estimatedSellPrice, quantity)
        sellFee == Div(Mul(grossRevenue, feeSettings.sellFeePercent), N(100))
        sellTax == Div(Mul(grossRevenue, feeSettings.sellTaxPercent), N(100))
        netRevenue == Sub(Sub(grossRevenue, sellFee), sellTax)
        estimatedProfit == Sub(netRevenue, totalCost)
        estimatedProfitPercent == IF Gt(totalCost, N(0))
                                  THEN Mul(Div(estimatedProfit, totalCost), N(100))
                                  ELSE N(0)
        leverage == IF Gt(warrant.current_price, N(0)) /\ Gt(warrant.conversion_ratio, N(0))
                    THEN Div(underlyingPrice, Mul(warrant.current_price, warrant.conversion_ratio))
                    ELSE N(0)
    IN  [breakEven |-> breakEvenResult.breakEvenPrice,
         isProfitable |-> breakEvenResult.isProfitable,
         profitMargin |-> breakEvenResult.profitMargin,
         profitMarginPercent |-> breakEvenResult.profitMarginPercent,
         estimatedProfit |-> estimatedProfit,
         estimatedProfitPercent |-> estimatedProfitPercent,
         totalCost |-> totalCost,
         netRevenue |-> netRevenue,
         leverage |-> leverage] @@ warrant

----------------------------------------------------------------------------
(* The warrants page that computes its rows inline (WarrantsPage.tableData) *)

WarrantsPage_timeValueFactor(days_to_maturity) ==
    IF days_to_maturity > 30 THEN N(1)
    ELSE IF days_to_maturity > 14 THEN R(8, 10)
    ELSE R(5, 10)

\* one element of warrantsData.warrants.map(...)
WarrantsPage_tableDataRow(warrant, underlyingPrice, target, quantity) ==
    LET breakEvenResult == calculateBreakEven(warrant.current_price, warrant.conversion_ratio,
                                              warrant.exercise_price, target)
        currentIntrinsicValue ==
            MathMax(N(0), Div(Sub(underlyingPrice, warrant.exercise_price), warrant.conversion_ratio))
        targetIntrinsicValue ==
            MathMax(N(0), Div(Sub(target, warrant.exercise_price), warrant.conversion_ratio))
        currentTimeValue == MathMax(N(0), Sub(warrant.current_price, currentIntrinsicValue))
        timeValueFactor == WarrantsPage_timeValueFactor(warrant.days_to_maturity)
        estimatedSellPrice ==
            MathMax(N(0), Add(targetIntrinsicValue, Mul(currentTimeValue, timeValueFactor)))
        buyPrice == warrant.current_price
        principal == Mul(buyPrice, quantity)
        buyFee == Div(Mul(principal, DEFAULT_BUY_FEE_PERCENT), N(100))
        totalCost == Add(principal, buyFee)
        grossRevenue == Mul(estimatedSellPrice, quantity)
        sellFee == Div(Mul(grossRevenue, DEFAULT_SELL_FEE_PERCENT), N(100))
        sellTax == Div(Mul(grossRevenue, DEFAULT_SELL_TAX_PERCENT), N(100))
        netRevenue == Sub(Sub(grossRevenue, sellFee), sellTax)
        estimatedProfit == Sub(netRevenue, totalCost)
        estimatedProfitPercent == IF Gt(totalCost, N(0))
                                  THEN Mul(Div(estimatedProfit, totalCost), N(100))
                                  ELSE N(0)
        leverage == IF Gt(warrant.current_price, N(0)) /\ Gt(warrant.conversion_ratio, N(0))
                    THEN Div(underlyingPrice, Mul(warrant.current_price, warrant.conversion_ratio))
                    ELSE N(0)
    IN  [breakEven |-> breakEvenResult.breakEvenPrice,
         isProfitable |-> breakEvenResult.isProfitable,
         profitMargin |-> breakEvenResult.profitMargin,
         profitMarginPercent |-> breakEvenResult.profitMarginPercent,
         estimatedProfit |-> estimatedProfit,
         estimatedProfitPercent |-> estimatedProfitPercent,
         totalCost |-> totalCost,
         netRevenue |-> netRevenue,
         leverage |-> leverage] @@ warrant

----------------------------------------------------------------------------
(* Scenario rows: utils/calculations.ts calculateScenario,                 *)
(* hooks/useScenarioCalculations.ts and AnalysisPage.scenarioResults       *)

\* position: StockPosition | null
Null == [null |-> TRUE]

calculateScenario(position, scenario) ==
    LET profitLoss == calculateProfitLoss(position.buyPrice, scenario.sellPrice,
                                          position.quantity, position.buyFeePercent,
                                          scenario.sellFeePercent, scenario.taxPercent)
    IN  [scenarioId |-> scenario.id,
         sellPrice |-> scenario.sellPrice,
         profitLoss |-> profitLoss]

analyzeWarrant(position, scenarios, warrantInfo, targetUnderlyingPrice) ==
    LET breakEven == calculateBreakEven(warrantInfo.currentCwPrice, warrantInfo.conversionRatio,
                                        warrantInfo.exercisePrice, targetUnderlyingPrice)
        exercise == calculateExerciseValue(
                        IF Truthy(targetUnderlyingPrice) THEN targetUnderlyingPrice
                        ELSE warrantInfo.underlyingPrice,
                        warrantInfo.exercisePrice, warrantInfo.conversionRatio,
                        warrantInfo.currentCwPrice, position.quantity, position.buyPrice,
                        position.buyFeePercent)
        scenarioResults == [i \in 1..Len(scenarios) |-> calculateScenario(position, scenarios[i])]
    IN  [breakEven |-> breakEven,
         exercise |-> exercise,
         scenarios |-> scenarioResults]

calculateScenarioRow(scenario, position, feeSettings, isWarrant) ==
    LET result == calculateProfitLoss(position.buyPrice, scenario.sellPrice,
                                      position.quantity, feeSettings.buyFeePercent,
                                      feeSettings.sellFeePercent, feeSettings.sellTaxPercent)
        principal == Mul(position.buyPrice, position.quantity)
        buyFee == Div(Mul(principal, feeSettings.buyFeePercent), N(100))
        sellFee == Div(Mul(Mul(scenario.sellPrice, position.quantity),
                           feeSettings.sellFeePercent), N(100))
        sellTax == Div(Mul(Mul(scenario.sellPrice, position.quantity),
                           feeSettings.sellTaxPercent), N(100))
        totalCosts == Add(Add(buyFee, sellFee), sellTax)
        breakEvenPrice ==
            IF ~isWarrant
            THEN (IF Gt(position.quantity, N(0))
                  THEN Div(Add(principal, totalCosts), position.quantity)
                  ELSE N(0))
            ELSE Undefined
    IN  [id |-> scenario.id,
         sellPrice |-> scenario.sellPrice,
         grossRevenue |-> result.revenue.grossRevenue,
         sellFee |-> result.revenue.sellFee,
         sellTax |-> result.revenue.sellTax,
         netRevenue |-> result.revenue.netRevenue,
         profit |-> result.profit,
         profitPercent |-> result.profitPercent,
         isProfit |-> result.isProfit,
         breakEvenPrice |-> breakEvenPrice]

\* useScenarioCalculations: the scenarioResults memo
useScenarioCalculations_scenarioResults(position, scenarios, feeSettings, isWarrant) ==
    IF position = Null THEN <<>>
    ELSE [i \in 1..Len(scenarios) |->
             calculateScenarioRow(scenarios[i], position, feeSettings, isWarrant)]

\* AnalysisPage: the scenarioResults memo, computed inline
AnalysisPage_scenarioResults(position, scenarios, isWarrant) ==
    IF position = Null THEN <<>>
    ELSE [i \in 1..Len(scenarios) |->
             LET scenario == scenarios[i]
                 result == calculateProfitLoss(position.buyPrice, scenario.sellPrice,
                                               position.quantity, position.buyFeePercent,
                                               scenario.sellFeePercent, scenario.taxPercent)
                 principal == Mul(position.buyPrice, position.quantity)
                 buyFee == Div(Mul(principal, position.buyFeePercent), N(100))
                 sellFee == Div(Mul(Mul(scenario.sellPrice, position.quantity),
                                    scenario.sellFeePercent), N(100))
                 sellTax == Div(Mul(Mul(scenario.sellPrice, position.quantity),
                                    scenario.taxPercent), N(100))
                 totalCosts == Add(Add(buyFee, sellFee), sellTax)
                 breakEvenPrice == IF Gt(position.quantity, N(0))
                                   THEN Div(Add(principal, totalCosts), position.quantity)
                                   ELSE N(0)
             IN  [id |-> scenario.id,
                  sellPrice |-> scenario.sellPrice,
                  grossRevenue |-> result.revenue.grossRevenue,
                  sellFee |-> result.revenue.sellFee,
                  sellTax |-> result.revenue.sellTax,
                  netRevenue |-> result.revenue.netRevenue,
                  profit |-> result.profit,
                  profitPercent |-> result.profitPercent,
                  isProfit |-> result.isProfit,
                  breakEvenPrice |-> IF isWarrant THEN Undefined ELSE breakEvenPrice]]

\* Math.max(...xs), Math.min(...xs) and xs.reduce((a, b) => a + b, 0)
RECURSIVE ArrayMax(_)
ArrayMax(xs) == IF xs = <<>> THEN Inf(-1) ELSE MathMax(ArrayMax(Tail(xs)), Head(xs))

RECURSIVE ArrayMin(_)
ArrayMin(xs) == IF xs = <<>> THEN Inf(1) ELSE MathMin(ArrayMin(Tail(xs)), Head(xs))

RECURSIVE ArraySum(_)
ArraySum(xs) ==
    IF xs = <<>> THEN N(0)
    ELSE Add(ArraySum(SubSeq(xs, 1, Len(xs) - 1)), xs[Len(xs)])

calculateSummary(scenarios) ==
    IF Len(scenarios) = 0 THEN Null
    ELSE LET profits == [i \in 1..Len(scenarios) |-> scenarios[i].profit]
             percents == [i \in 1..Len(scenarios) |-> scenarios[i].profitPercent]
         IN  [bestProfit |-> ArrayMax(profits),
              bestProfitPercent |-> ArrayMax(percents),
              worstProfit |-> ArrayMin(profits),
              worstProfitPercent |-> ArrayMin(percents),
              avgProfit |-> Div(ArraySum(profits), N(Len(profits))),
              avgProfitPercent |-> Div(ArraySum(percents), N(Len(percents)))]

\* what the hook returns for the rows of its scenarioResults memo
useScenarioCalculations_return(position, feeSettings, scenarioResults) ==
    [scenarioResults |-> scenarioResults,
     totalCost |-> IF position = Null THEN N(0)
                   ELSE Add(Mul(position.buyPrice, position.quantity),
                            Div(Mul(Mul(position.buyPrice, position.quantity),
                                    feeSettings.buyFeePercent), N(100))),
     principal |-> IF position = Null THEN N(0)
                   ELSE Mul(position.buyPrice, position.quantity),
     buyFee |-> IF position = Null THEN N(0)
                ELSE Div(Mul(Mul(position.buyPrice, position.quantity),
                             feeSettings.buyFeePercent), N(100)),
     summary |-> calculateSummary(scenarioResults)]

useScenarioCalculations(position, scenarios, feeSettings, isWarrant) ==
    useScenarioCalculations_return(
        position, feeSettings,
        useScenarioCalculations_scenarioResults(position, scenarios, feeSettings, isWarrant))

\* scenarioResults.reduce((max, s) => s.profit > max.profit ? s : max, scenarioResults[0])
RECURSIVE reduceBest(_, _)
reduceBest(max, rest) ==
    IF rest = <<>> THEN max
    ELSE reduceBest(IF Gt(rest[1].profit, max.profit) THEN rest[1] ELSE max, Tail(rest))

RECURSIVE reduceWorst(_, _)
reduceWorst(min, rest) ==
    IF rest = <<>> THEN min
    ELSE reduceWorst(IF Lt(rest[1].profit, min.profit) THEN rest[1] ELSE min, Tail(rest))

\* the scenarioStats memo of the analysis page
AnalysisPage_scenarioStats(scenarioResults) ==
    IF Len(scenarioResults) = 0 THEN Null
    ELSE LET profits == [i \in 1..Len(scenarioResults) |-> scenarioResults[i].profit]
             profitPercents ==
                 [i \in 1..Len(scenarioResults) |-> scenarioResults[i].profitPercent]
         IN  [best |-> reduceBest(scenarioResults[1], scenarioResults),
              worst |-> reduceWorst(scenarioResults[1], scenarioResults),
              avgProfit |-> Div(ArraySum(profits), N(Len(profits))),
              avgProfitPercent |-> Div(ArraySum(profitPercents), N(Len(profitPercents))),
              profitableCount |-> Len(SelectSeq(scenarioResults, LAMBDA r : r.isProfit)),
              totalCount |-> Len(scenarioResults)]

\* the two memos of the analysis page
AnalysisPage_render(scenarioResults) ==
    [scenarioResults |-> scenarioResults,
     scenarioStats |-> AnalysisPage_scenarioStats(scenarioResults)]

----------------------------------------------------------------------------
(* Screener pipeline: filter and sort of hooks/useWarrantCalculations.ts   *)

filterWarrantsByProfitability(data, filter) ==
    CASE filter = "profitable" ->
             SelectSeq(data, LAMBDA w : Gt(w.estimatedProfit, N(0)))
      [] filter = "unprofitable" ->
             SelectSeq(data, LAMBDA w : Le(w.estimatedProfit, N(0)))
      [] OTHER -> data

\* collation order of the warrant symbols in use
SymbolOrder == <<"CW", "CWA", "CWB", "CWC", "CWD", "CWE">>

\* a.localeCompare(b): negative, 0 or positive
localeCompare(a, b) ==
    LET rank(s) == CHOOSE i \in 1..Len(SymbolOrder) : SymbolOrder[i] = s
    IN  N(IF rank(a) < rank(b) THEN -1 ELSE IF rank(a) > rank(b) THEN 1 ELSE 0)

\* the expiry comparator without the unknown-maturity cases
sortComparatorPlainExpiry(sortBy, a, b) ==
    CASE sortBy = "breakEven" -> Sub(a.breakEven, b.breakEven)
      [] sortBy = "margin" -> Sub(b.profitMarginPercent, a.profitMarginPercent)
      [] sortBy = "expiry" -> N(a.days_to_maturity - b.days_to_maturity)
      [] sortBy = "volume" -> N(b.volume - a.volume)
      [] OTHER -> localeCompare(a.symbol, b.symbol)

\* the breakEven comparator reversed
sortComparatorDescending(sortBy, a, b) ==
    CASE sortBy = "breakEven" -> Sub(b.breakEven, a.breakEven)
      [] sortBy = "margin" -> Sub(b.profitMarginPercent, a.profitMarginPercent)
      [] sortBy = "expiry" ->
             IF a.days_to_maturity < 0 /\ b.days_to_maturity >= 0 THEN N(1)
             ELSE IF b.days_to_maturity < 0 /\ a.days_to_maturity >= 0 THEN N(-1)
             ELSE N(a.days_to_maturity - b.days_to_maturity)
      [] sortBy = "volume" -> N(b.volume - a.volume)
      [] OTHER -> localeCompare(a.symbol, b.symbol)

\* the comparator sortWarrants passes to Array.prototype.sort for each
\* sortBy (the inline page passes the same five comparators)
sortComparator(sortBy, a, b) ==
    CASE sortBy = "breakEven" -> Sub(a.breakEven, b.breakEven)
      [] sortBy = "margin" -> Sub(b.profitMarginPercent, a.profitMarginPercent)
      [] sortBy = "expiry" ->
             IF a.days_to_maturity < 0 /\ b.days_to_maturity >= 0 THEN N(1)
             ELSE IF b.days_to_maturity < 0 /\ a.days_to_maturity >= 0 THEN N(-1)
             ELSE N(a.days_to_maturity - b.days_to_maturity)
      [] sortBy = "volume" -> N(b.volume - a.volume)
      [] OTHER -> localeCompare(a.symbol, b.symbol)

\* Array.prototype.sort is a stable sort (ECMAScript 2019): an element moves
\* in front of another only when the comparator says it is smaller.  It is
\* computed here by stable insertion; a NaN comparator result counts as 0.
RECURSIVE ArrayInsert(_, _, _)
ArrayInsert(sorted, x, sortBy) ==
    IF sorted = <<>> THEN <<x>>
    ELSE LET last == sorted[Len(sorted)]
         IN  IF Gt(sortComparator(sortBy, last, x), N(0))
             THEN Append(ArrayInsert(SubSeq(sorted, 1, Len(sorted) - 1), x, sortBy), last)
             ELSE Append(sorted, x)

RECURSIVE ArraySort(_, _)
ArraySort(arr, sortBy) ==
    IF arr = <<>> THEN <<>>
    ELSE ArrayInsert(ArraySort(SubSeq(arr, 1, Len(arr) - 1), sortBy), arr[Len(arr)], sortBy)

\* the argument array sorted itself, without the copy
sortWarrantsInPlace(data, sortBy) ==
    [sorted |-> ArraySort(data, sortBy), data |-> ArraySort(data, sortBy)]

\* sortWarrants: sorted is the returned array, data the argument array as the
\* call leaves it (the sort runs on the copy [...data])
sortWarrants(data, sortBy) ==
    [sorted |-> ArraySort(data, sortBy), data |-> data]

\* a later row replacing the best one on a tie
RECURSIVE reduceBestBreakEvenLast(_, _)
reduceBestBreakEvenLast(best, rest) ==
    IF rest = <<>> THEN best
    ELSE reduceBestBreakEvenLast(IF Le(rest[1].breakEven, best.breakEven) THEN rest[1] ELSE best,
                                 Tail(rest))

\* tableData.reduce((best, current) => current.breakEven < best.breakEven ? current : best)
RECURSIVE reduceBestBreakEven(_, _)
reduceBestBreakEven(best, rest) ==
    IF rest = <<>> THEN best
    ELSE reduceBestBreakEven(IF Lt(rest[1].breakEven, best.breakEven) THEN rest[1] ELSE best,
                             Tail(rest))

\* The arrays one run of a pipeline allocates, by name, and the name of the
\* array the variable data refers to; a step that returns its argument
\* array or sorts in place is an alias or a write to a name.
ArrayHeap(warrants) ==
    [warrants |-> warrants, mapped |-> <<>>, filtered |-> <<>>, sorted |-> <<>>,
     data |-> "warrants"]

\* data = warrants.map(...)
HeapMap(h, rows) == [h EXCEPT !.mapped = rows, !.data = "mapped"]

\* data = data.filter(...) where a filter is applied, data unchanged otherwise
HeapFilter(h, applies, kept) ==
    IF applies THEN [h EXCEPT !.filtered = kept, !.data = "filtered"] ELSE h

\* data = sortWarrants(data, sortBy)
HeapSortWarrants(h, s) == [h EXCEPT ![h.data] = s.data, !.sorted = s.sorted, !.data = "sorted"]

\* data.sort(...)
HeapSortInPlace(h, sorted) == [h EXCEPT ![h.data] = sorted]

\* return data, with the input array as the run leaves it
HeapReturn(h) == [tableData |-> h[h.data], warrants |-> h.warrants]

useWarrantCalculations_filter(h, filterProfitable) ==
    HeapFilter(h, filterProfitable \in {"profitable", "unprofitable"},
               filterWarrantsByProfitability(h[h.data], filterProfitable))

useWarrantCalculations_sort(h, sortBy) ==
    HeapSortWarrants(h, sortWarrants(h[h.data], sortBy))

\* The tableData memo of useWarrantCalculations (warrants is an array here;
\* an undefined warrants returns [] like the empty one).
useWarrantCalculations_tableData(warrants, underlyingPrice, targetUnderlyingPrice, feeSettings, quantity, filterProfitable, sortBy) ==
    IF Len(warrants) = 0 THEN [tableData |-> <<>>, warrants |-> warrants]
    ELSE HeapReturn(
             useWarrantCalculations_sort(
                 useWarrantCalculations_filter(
                     HeapMap(ArrayHeap(warrants),
                             [i \in 1..Len(warrants) |->
                                 calculateWarrantMetrics(
                                     warrants[i], underlyingPrice,
                                     IF targetUnderlyingPrice = Null THEN underlyingPrice
                                     ELSE targetUnderlyingPrice,
                                     quantity, feeSettings)]),
                     filterProfitable),
                 sortBy))

useWarrantCalculations_bestBreakEvenWarrant(tableData) ==
    IF Len(tableData) = 0 THEN Null
    ELSE reduceBestBreakEven(tableData[1], Tail(tableData))

\* what the hook returns for a finished tableData
useWarrantCalculations_return(tableData) ==
    [tableData |-> tableData,
     bestBreakEvenWarrant |-> useWarrantCalculations_bestBreakEvenWarrant(tableData)]

----------------------------------------------------------------------------
(* The inline screener of the warrants page (second page of app/layout.tsx) *)

WarrantsPage_filter(data, filterProfitable) ==
    IF filterProfitable = "profitable"
    THEN SelectSeq(data, LAMBDA w : w.isProfitable)
    ELSE IF filterProfitable = "unprofitable"
    THEN SelectSeq(data, LAMBDA w : ~w.isProfitable)
    ELSE data

WarrantsPage_minDaysFilter(data, minDaysToMaturity) ==
    IF minDaysToMaturity # Null
    THEN SelectSeq(data, LAMBDA w : w.days_to_maturity >= 0
                                    /\ Ge(N(w.days_to_maturity), minDaysToMaturity))
    ELSE data

WarrantsPage_filterStep(h, filterProfitable) ==
    HeapFilter(h, filterProfitable \in {"profitable", "unprofitable"},
               WarrantsPage_filter(h[h.data], filterProfitable))

WarrantsPage_minDaysStep(h, minDaysToMaturity) ==
    HeapFilter(h, minDaysToMaturity # Null,
               WarrantsPage_minDaysFilter(h[h.data], minDaysToMaturity))

WarrantsPage_sortStep(h, sortBy) == HeapSortInPlace(h, ArraySort(h[h.data], sortBy))

\* const target = targetUnderlyingPrice || underlyingPrice
WarrantsPage_target(underlyingPrice, targetUnderlyingPrice) ==
    IF targetUnderlyingPrice # Null /\ Truthy(targetUnderlyingPrice)
    THEN targetUnderlyingPrice ELSE underlyingPrice

WarrantsPage_map(warrants, underlyingPrice, target, quantity) ==
    HeapMap(ArrayHeap(warrants),
            [i \in 1..Len(warrants) |->
                WarrantsPage_tableDataRow(warrants[i], underlyingPrice, target, quantity)])

\* The tableData memo of the page: map, filter, maturity filter, then
\* data.sort(...) in place on whichever array data names at that point.
\* underlyingPrice is warrantsData.underlying?.current_price || 0.
WarrantsPage_tableData(warrants, underlyingPrice, targetUnderlyingPrice, filterProfitable, sortBy, quantity, minDaysToMaturity) ==
    HeapReturn(
        WarrantsPage_sortStep(
            WarrantsPage_minDaysStep(
                WarrantsPage_filterStep(
                    WarrantsPage_map(warrants, underlyingPrice,
                                     WarrantsPage_target(underlyingPrice, targetUnderlyingPrice),
                                     quantity),
                    filterProfitable),
                minDaysToMaturity),
            sortBy))

WarrantsPage_bestBreakEvenWarrant(tableData) ==
    IF Len(tableData) = 0 THEN Null
    ELSE reduceBestBreakEven(tableData[1], tableData)

\* what the page holds for a finished tableData
WarrantsPage_return(tableData) ==
    [tableData |-> tableData,
     bestBreakEvenWarrant |-> WarrantsPage_bestBreakEvenWarrant(tableData)]

----------------------------------------------------------------------------
(* stores/useStockStore.ts and stores/useWarrantStore.ts                    *)
(*                                                                         *)
(* A store is a record of its state fields; every action of a store is an  *)
(* operator from the state before the call to the state after it.  A       *)
(* JavaScript object used as a dictionary (symbolDataCache) is a function  *)
(* whose DOMAIN is the set of its own keys; a missing key reads as         *)
(* `undefined`.  A scenario id is the string                               *)
(* `<prefix>_${Date.now()}_${Math.random().toString(36).slice(2, 9)}`,     *)
(* modelled as the record of its three parts.                              *)

JsUndefined == [undefined |-> TRUE]

Falsy(v) == v = Null \/ v = JsUndefined

(* A value of type `string | null`: a string, `null` being NullString;     *)
(* `!symbol` holds of null and of the empty string.                        *)
NullString == "(null)"

FalsyString(v) == v = NullString \/ v = ""

EmptyObject == [k \in {} |-> JsUndefined]

ObjectGet(o, k) == IF k \in DOMAIN o THEN o[k] ELSE JsUndefined

ObjectSet(o, k, v) == [j \in DOMAIN o \cup {k} |-> IF j = k THEN v ELSE o[j]]

ObjectSpread(o, updates) == [f \in DOMAIN o \cup DOMAIN updates |-> IF f \in DOMAIN updates THEN updates[f] ELSE o[f]]

ArrayMapUpdate(scenarios, id, updates) == [i \in 1..Len(scenarios) |-> IF scenarios[i].id = id THEN ObjectSpread(scenarios[i], updates) ELSE scenarios[i]]

ArrayFilterNotId(scenarios, id) == SelectSeq(scenarios, LAMBDA s : s.id # id)

useStockStore_generateId(dateNow, random) == [prefix |-> "stock_scenario", t |-> dateNow, r |-> random]

useWarrantStore_generateId(dateNow, random) == [prefix |-> "scenario", t |-> dateNow, r |-> random]

newScenario(id, sellPrice) == [id |-> id, sellPrice |-> sellPrice, sellFeePercent |-> DEFAULT_SELL_FEE_PERCENT, taxPercent |-> DEFAULT_SELL_TAX_PERCENT]

useStockStore_initialState == [currentSymbol |-> NullString, symbolDataCache |-> EmptyObject]

EmptySymbolData == [position |-> Null, scenarios |-> <<>>]

useStockStore_currentData(s) == ObjectGet(s.symbolDataCache, s.currentSymbol)

useStockStore_currentDataOrEmpty(s) == IF Falsy(useStockStore_currentData(s)) THEN EmptySymbolData ELSE useStockStore_currentData(s)

\* mutant: the cache is rebuilt with the current symbol's entry only
useStockStore_setDataCurrentOnly(s, data) == [s EXCEPT !.symbolDataCache = ObjectSet(EmptyObject, s.currentSymbol, data)]

useStockStore_setData(s, data) == [s EXCEPT !.symbolDataCache = ObjectSet(s.symbolDataCache, s.currentSymbol, data)]

useStockStore_position(s) ==
    IF FalsyString(s.currentSymbol) THEN Null
    ELSE IF Falsy(useStockStore_currentData(s)) THEN Null
    ELSE useStockStore_currentData(s).position

useStockStore_scenarios(s) ==
    IF FalsyString(s.currentSymbol) THEN <<>>
    ELSE IF Falsy(useStockStore_currentData(s)) THEN <<>>
    ELSE useStockStore_currentData(s).scenarios

useStockStore_setCurrentSymbol(s, symbol) == [s EXCEPT !.currentSymbol = symbol]

useStockStore_setPosition(s, position) ==
    IF FalsyString(s.currentSymbol) THEN s
    ELSE useStockStore_setData(s, [useStockStore_currentDataOrEmpty(s) EXCEPT !.position = position])

useStockStore_updatePosition(s, updates) ==
    IF FalsyString(s.currentSymbol) THEN s
    ELSE IF Falsy(useStockStore_currentData(s)) THEN s
    ELSE IF Falsy(useStockStore_currentData(s).position) THEN s
    ELSE useStockStore_setData(s, [useStockStore_currentData(s) EXCEPT !.position = ObjectSpread(@, updates)])

\* mutant: the new scenario is put in front of the list
useStockStore_addScenarioFirst(s, sellPrice, dateNow, random) ==
    IF FalsyString(s.currentSymbol) THEN s
    ELSE useStockStore_setData(s, [useStockStore_currentDataOrEmpty(s) EXCEPT !.scenarios = <<newScenario(useStockStore_generateId(dateNow, random), sellPrice)>> \o @])

useStockStore_addScenario(s, sellPrice, dateNow, random) ==
    IF FalsyString(s.currentSymbol) THEN s
    ELSE useStockStore_setData(s, [useStockStore_currentDataOrEmpty(s) EXCEPT !.scenarios = Append(@, newScenario(useStockStore_generateId(dateNow, random), sellPrice))])

useStockStore_updateScenario(s, id, updates) ==
    IF FalsyString(s.currentSymbol) THEN s
    ELSE IF Falsy(useStockStore_currentData(s)) THEN s
    ELSE useStockStore_setData(s, [useStockStore_currentData(s) EXCEPT !.scenarios = ArrayMapUpdate(@, id, updates)])

useStockStore_removeScenario(s, id) ==
    IF FalsyString(s.currentSymbol) THEN s
    ELSE IF Falsy(useStockStore_currentData(s)) THEN s
    ELSE useStockStore_setData(s, [useStockStore_currentData(s) EXCEPT !.scenarios = ArrayFilterNotId(@, id)])

useStockStore_clearScenarios(s) ==
    IF FalsyString(s.currentSymbol) THEN s
    ELSE IF Falsy(useStockStore_currentData(s)) THEN s
    ELSE useStockStore_setData(s, [useStockStore_currentData(s) EXCEPT !.scenarios = <<>>])

useStockStore_reset(s) == [s EXCEPT !.currentSymbol = useStockStore_initialState.currentSymbol, !.symbolDataCache = useStockStore_initialState.symbolDataCache]

(* The analysis page reads the cache entry of the symbol it shows. *)
AnalysisPage_position(s, symbolCode) == IF Falsy(ObjectGet(s.symbolDataCache, symbolCode)) THEN Null ELSE IF Falsy(s.symbolDataCache[symbolCode].position) THEN Null ELSE s.symbolDataCache[symbolCode].position

AnalysisPage_scenarios(s, symbolCode) == IF Falsy(ObjectGet(s.symbolDataCache, symbolCode)) THEN <<>> ELSE s.symbolDataCache[symbolCode].scenarios

useWarrantStore_initialState == [currentWarrant |-> NullString, position |-> Null, scenarios |-> <<>>, targetUnderlyingPrice |-> Null, selectedUnderlying |-> NullString, feeSettings |-> [buyFeePercent |-> DEFAULT_BUY_FEE_PERCENT, sellFeePercent |-> DEFAULT_SELL_FEE_PERCENT, sellTaxPercent |-> DEFAULT_SELL_TAX_PERCENT]]

useWarrantStore_setCurrentWarrant(s, symbol) == [s EXCEPT !.currentWarrant = symbol]

useWarrantStore_setPosition(s, position) == [s EXCEPT !.position = position]

useWarrantStore_updatePosition(s, updates) == IF Falsy(s.position) THEN s ELSE [s EXCEPT !.position = ObjectSpread(@, updates)]

useWarrantStore_addScenario(s, sellPrice, dateNow, random) == [s EXCEPT !.scenarios = Append(@, newScenario(useWarrantStore_generateId(dateNow, random), sellPrice))]

useWarrantStore_updateScenario(s, id, updates) == [s EXCEPT !.scenarios = ArrayMapUpdate(@, id, updates)]

useWarrantStore_removeScenario(s, id) == [s EXCEPT !.scenarios = ArrayFilterNotId(@, id)]

useWarrantStore_clearScenarios(s) == [s EXCEPT !.scenarios = <<>>]

useWarrantStore_setTargetUnderlyingPrice(s, price) == [s EXCEPT !.targetUnderlyingPrice = price]

useWarrantStore_setSelectedUnderlying(s, symbol) == [s EXCEPT !.selectedUnderlying = symbol]

useWarrantStore_setFeeSettings(s, settings) == [s EXCEPT !.feeSettings = ObjectSpread(@, settings)]

useWarrantStore_reset(s) == useWarrantStore_initialState

(* The stores while nothing uses them: freshly created, clock at its origin. *)
StoreIdle ==
    /\ now = 0
    /\ storeInUse = "none"
    /\ stockStore = useStockStore_initialState
    /\ warrantStore = useWarrantStore_initialState

----------------------------------------------------------------------------
(* utils/calculations.ts: utility functions *)

MATURITY_WARNING_DAYS == 14

\* mutant: unknown maturity (a negative number of days) counted as near
isNearExpirationNoSentinel(daysToMaturity, warningDays) ==
    Le(daysToMaturity, IF warningDays = Undefined THEN N(MATURITY_WARNING_DAYS) ELSE warningDays)

isNearExpiration(daysToMaturity, warningDays) ==
    IF Lt(daysToMaturity, N(0)) THEN FALSE
    ELSE Le(daysToMaturity, IF warningDays = Undefined THEN N(MATURITY_WARNING_DAYS) ELSE warningDays)

calculateFees(buyValue, sellValue, buyFeePercentArg, sellFeePercentArg) ==
    [buyFee |-> Div(Mul(buyValue, IF buyFeePercentArg = Undefined THEN DEFAULT_BUY_FEE_PERCENT ELSE buyFeePercentArg), N(100)),
     sellFee |-> Div(Mul(sellValue, IF sellFeePercentArg = Undefined THEN DEFAULT_SELL_FEE_PERCENT ELSE sellFeePercentArg), N(100)),
     totalFee |-> Add(Div(Mul(buyValue, IF buyFeePercentArg = Undefined THEN DEFAULT_BUY_FEE_PERCENT ELSE buyFeePercentArg), N(100)),
                      Div(Mul(sellValue, IF sellFeePercentArg = Undefined THEN DEFAULT_SELL_FEE_PERCENT ELSE sellFeePercentArg), N(100)))]

calculateTax(sellValue, taxPercentArg) ==
    [sellTax |-> Div(Mul(sellValue, IF taxPercentArg = Undefined THEN DEFAULT_SELL_TAX_PERCENT ELSE taxPercentArg), N(100))]

\* 1000 * 60 * 60 * 24
MS_PER_DAY == 86400000

\* Math.ceil
MathCeil(x) == IF IsFinite(x) THEN N(-((-x.n) \div x.d)) ELSE x

\* new Date(expirationDate).getTime(): a date-only ISO string is midnight
\* UTC of that day, anything unparsable is an Invalid Date (NaN)
DateParse(expirationDate) ==
    CASE expirationDate = "1970-01-02" -> N(MS_PER_DAY)
      [] expirationDate = "1970-01-03" -> N(2 * MS_PER_DAY)
      [] OTHER -> NaN

\* `today` is new Date(): the clock at the moment of the call
calculateDaysToMaturity(expirationDate, dateNow) ==
    MathMax(N(0), MathCeil(Div(Sub(DateParse(expirationDate), N(dateNow)), N(MS_PER_DAY))))

----------------------------------------------------------------------------
(* hooks/useLocalStorage.ts                                                *)
(*                                                                         *)
(* The hook is modelled with the React machinery it runs on: the two       *)
(* useState cells hold the state of the last committed render, a state     *)
(* setter queues an update, a render applies the queued updates in order   *)
(* and commits, and a commit schedules the effects whose dependencies      *)
(* changed, each with the values its render closed over; the effects of a  *)
(* commit run in the order the hook declares them, before the next render. *)
(* The stored values are small numbers; an item of localStorage is a       *)
(* string, or NullString when the key has no item.                         *)

\* JSON.stringify of a stored value
JSONStringify(value) == <<"0", "1", "2", "3", "4">>[value + 1]

\* JSON.parse: its value, or a SyntaxError
JSONParse(item) ==
    CASE item = "0" -> [ok |-> TRUE, value |-> 0]
      [] item = "1" -> [ok |-> TRUE, value |-> 1]
      [] item = " 1" -> [ok |-> TRUE, value |-> 1]
      [] item = "2" -> [ok |-> TRUE, value |-> 2]
      [] item = "3" -> [ok |-> TRUE, value |-> 3]
      [] item = "4" -> [ok |-> TRUE, value |-> 4]
      [] OTHER -> [ok |-> FALSE]

setStoredValue(value) == [cell |-> "storedValue", updater |-> "value", value |-> value]

setStoredValueWith(updater) == [cell |-> "storedValue", updater |-> updater, value |-> 0]

setIsHydrated(value) == [cell |-> "isHydrated", updater |-> "value", value |-> value]

\* the state updates the hydration effect queues, given the item it reads
useLocalStorage_hydrationEffect(item) ==
    IF item # NullString /\ JSONParse(item).ok
    THEN <<setStoredValue(JSONParse(item).value), setIsHydrated(TRUE)>>
    ELSE <<setIsHydrated(TRUE)>>

\* mutant: the save effect writes before hydration too
useLocalStorage_saveEffectUnguarded(closure, item) == JSONStringify(closure.storedValue)

\* the item under the key after the save effect of a render has run
useLocalStorage_saveEffect(closure, item) ==
    IF ~closure.isHydrated THEN item
    ELSE JSONStringify(closure.storedValue)

\* setValue(value) and setValue(prev => ...)
useLocalStorage_setValue(value) == <<setStoredValue(value)>>

useLocalStorage_setValueWith(updater) == <<setStoredValueWith(updater)>>

\* removeValue: the item after it and the state updates it queues
useLocalStorage_removeValue(initial) == [item |-> NullString, updates |-> <<setStoredValue(initial)>>]

\* a caller's functional update (prev) => ...
ApplyUpdater(updater, prev, top) == IF updater = "next" THEN (prev + 1) % (top + 1) ELSE prev

\* useState cells after the queued updates are applied in order
RECURSIVE RenderState(_, _, _)
RenderState(state, updates, top) ==
    IF updates = <<>> THEN state
    ELSE RenderState(
             IF Head(updates).cell = "isHydrated" THEN [state EXCEPT !.isHydrated = Head(updates).value]
             ELSE IF Head(updates).updater = "value" THEN [state EXCEPT !.storedValue = Head(updates).value]
             ELSE [state EXCEPT !.storedValue = ApplyUpdater(Head(updates).updater, @, top)],
             Tail(updates), top)

\* the effects a commit schedules: on mount both, afterwards the save
\* effect when one of its dependencies [key, storedValue, isHydrated] changed
EffectsOnMount(state) == <<[effect |-> "hydration", storedValue |-> state.storedValue, isHydrated |-> state.isHydrated], [effect |-> "save", storedValue |-> state.storedValue, isHydrated |-> state.isHydrated]>>

EffectsOnUpdate(before, state) ==
    IF before = state THEN <<>>
    ELSE <<[effect |-> "save", storedValue |-> state.storedValue, isHydrated |-> state.isHydrated]>>

----------------------------------------------------------------------------
(* utils/tradingHours.ts                                                   *)
(*                                                                         *)
(* vietnamTime is the Date built from the Vietnam wall-clock reading of    *)
(* the instant; the model keeps it as minutes since Sunday 00:00, which is *)
(* what getDay, getHours, setDate, setHours and getTime work on.           *)

MARKET_OPEN_HOUR == 9

MARKET_CLOSE_HOUR == 15

MinutesPerDay == 1440

MsPerMinute == 60000

getDay(date) == (date \div MinutesPerDay) % 7

getHours(date) == (date % MinutesPerDay) \div 60

\* date.setDate(date.getDate() + days)
addDays(date, days) == date + days * MinutesPerDay

\* date.setHours(hour, 0, 0, 0)
setHours(date, hour) == (date \div MinutesPerDay) * MinutesPerDay + hour * 60

\* date.getTime(), in milliseconds
getTime(date) == date * MsPerMinute

isMarketOpen(vietnamTime) ==
    IF getDay(vietnamTime) = 0 \/ getDay(vietnamTime) = 6 THEN FALSE
    ELSE getHours(vietnamTime) >= MARKET_OPEN_HOUR /\ getHours(vietnamTime) < MARKET_CLOSE_HOUR

daysToAdd(vietnamTime) ==
    IF getDay(vietnamTime) = 0 THEN 1
    ELSE IF getDay(vietnamTime) = 6 THEN 2
    ELSE IF getHours(vietnamTime) >= MARKET_CLOSE_HOUR THEN 1
    ELSE 0

nextOpen(vietnamTime) == setHours(addDays(vietnamTime, daysToAdd(vietnamTime)), MARKET_OPEN_HOUR)

getTimeUntilMarketOpen(vietnamTime) ==
    IF isMarketOpen(vietnamTime) THEN 0
    ELSE getTime(nextOpen(vietnamTime)) - getTime(vietnamTime)

getPollingInterval(vietnamTime, intervalMs) == IF isMarketOpen(vietnamTime) THEN [interval |-> intervalMs] ELSE [interval |-> FALSE]

----------------------------------------------------------------------------
(* calculateWarrantMetrics: the intermediate values of the projection      *)

currentIntrinsicValue(warrant, underlyingPrice) == MathMax(N(0), Div(Sub(underlyingPrice, warrant.exercise_price), warrant.conversion_ratio))

targetIntrinsicValue(warrant, targetPrice) == MathMax(N(0), Div(Sub(targetPrice, warrant.exercise_price), warrant.conversion_ratio))

currentTimeValue(warrant, underlyingPrice) == MathMax(N(0), Sub(warrant.current_price, currentIntrinsicValue(warrant, underlyingPrice)))

estimatedSellPrice(warrant, underlyingPrice, targetPrice) ==
    MathMax(N(0), Add(targetIntrinsicValue(warrant, targetPrice),
                      Mul(currentTimeValue(warrant, underlyingPrice), getTimeValueFactor(warrant.days_to_maturity))))

\* netRevenue of selling quantity warrants at price
netRevenueAt(price, quantity, feeSettings) ==
    Sub(Sub(Mul(price, quantity), Div(Mul(Mul(price, quantity), feeSettings.sellFeePercent), N(100))),
        Div(Mul(Mul(price, quantity), feeSettings.sellTaxPercent), N(100)))

----------------------------------------------------------------------------
(* Inputs *)

MaxPrice == 4

MaxQty == 2

\* prices on a unit grid
Prices == {N(i) : i \in 0..MaxPrice}

Quantities == {N(i) : i \in 0..MaxQty}

\* rates in percent units: 0%, 0.1%, 0.15%
Rates == {N(0), R(1, 10), R(15, 100)}

ProfitLossExample ==
    [fn |-> "calculateProfitLoss", buyPrice |-> N(10000), sellPrice |-> N(12000),
     quantity |-> N(100), buyFeePercent |-> R(15, 100),
     sellFeePercent |-> R(15, 100), taxPercent |-> R(1, 10)]

ProfitLossInputs ==
    [fn : {"calculateProfitLoss"}, buyPrice : Prices, sellPrice : Prices,
     quantity : Quantities, buyFeePercent : Rates \cup {Undefined},
     sellFeePercent : Rates, taxPercent : Rates]
    \cup {ProfitLossExample}

MaxRatio == 2

MaxTarget == 7

\* conversion ratios; 0 is market data that is not yet available
Ratios == {N(i) : i \in 0..MaxRatio}

Targets == {N(i) : i \in 0..MaxTarget}

BreakEvenExamples ==
    [fn : {"calculateBreakEven"}, cwPrice : {N(1500)}, conversionRatio : {N(4)},
     exercisePrice : {N(45000)},
     targetUnderlyingPrice : {N(55000), N(51000), N(0), Undefined}]

BreakEvenInputs ==
    [fn : {"calculateBreakEven"}, cwPrice : Prices, conversionRatio : Ratios,
     exercisePrice : Prices, targetUnderlyingPrice : Targets \cup {Undefined}]
    \cup BreakEvenExamples

ExerciseValueInputs ==
    [fn : {"calculateExerciseValue"}, underlyingPrice : Prices, exercisePrice : Prices,
     conversionRatio : Ratios, currentCwPrice : Prices,
     quantity : Quantities \cup {Undefined},
     buyPrice : {Undefined, N(1), N(3)},
     buyFeePercent : {Undefined, N(0)}]

MaxScreenerPrice == 3

MaxDays == 32

ScreenerPrices == {N(i) : i \in 0..MaxScreenerPrice}

\* days to maturity on both sides of each bucket boundary; negative is the
\* "unknown maturity" sentinel
BoundaryDays == {-1, 14, 15, 30, 31}

DefaultFeeSettings ==
    [buyFeePercent |-> DEFAULT_BUY_FEE_PERCENT,
     sellFeePercent |-> DEFAULT_SELL_FEE_PERCENT,
     sellTaxPercent |-> DEFAULT_SELL_TAX_PERCENT]

NoFeeSettings == [buyFeePercent |-> N(0), sellFeePercent |-> N(0), sellTaxPercent |-> N(0)]

\* fee settings a user saved through setFeeSettings
CustomFeeSettings == [buyFeePercent |-> R(2, 10), sellFeePercent |-> R(3, 10), sellTaxPercent |-> R(5, 10)]

Warrants ==
    [symbol : {"CW"}, current_price : ScreenerPrices, conversion_ratio : Ratios,
     exercise_price : ScreenerPrices, days_to_maturity : BoundaryDays, volume : {0}]

ExampleWarrant ==
    [symbol |-> "CW", current_price |-> N(1800), conversion_ratio |-> N(4),
     exercise_price |-> N(45000), days_to_maturity |-> 20, volume |-> 0]

WarrantMetricsInputs ==
    [fn : {"calculateWarrantMetrics"}, warrant : Warrants, underlyingPrice : ScreenerPrices,
     targetPrice : ScreenerPrices, quantity : Quantities,
     feeSettings : {DefaultFeeSettings, CustomFeeSettings}]
    \cup
    [fn : {"calculateWarrantMetrics"}, warrant : {ExampleWarrant}, underlyingPrice : {N(50000)},
     targetPrice : {N(53000)}, quantity : {N(1), N(100)},
     feeSettings : {DefaultFeeSettings, NoFeeSettings}]

\* the page takes target = targetUnderlyingPrice || underlyingPrice, so the
\* target is 0 only when the underlying price is 0 as well
WarrantsPageRowInputs ==
    {a \in [fn : {"WarrantsPage.tableData"}, warrant : Warrants,
            underlyingPrice : ScreenerPrices, targetPrice : ScreenerPrices,
            quantity : Quantities] :
        a.targetPrice # N(0) \/ a.underlyingPrice = N(0)}
    \cup
    [fn : {"WarrantsPage.tableData"}, warrant : {ExampleWarrant}, underlyingPrice : {N(50000)},
     targetPrice : {N(53000)}, quantity : {N(1), N(100)}]

TimeValueFactorInputs ==
    [fn : {"getTimeValueFactor", "WarrantsPage.timeValueFactor"},
     daysToMaturity : (-1)..MaxDays]

MaxScenarios == 2

Positions ==
    [symbol : {"AAA"}, buyPrice : {N(2)}, quantity : Quantities,
     buyFeePercent : {N(0), R(15, 100)}]
    \cup {[symbol |-> "AAA", buyPrice |-> N(100), quantity |-> N(10),
           buyFeePercent |-> R(15, 100)]}

\* a scenario's own sell fee and tax rates
ScenarioRates ==
    {[sellFeePercent |-> R(15, 100), taxPercent |-> R(1, 10)],
     [sellFeePercent |-> N(0), taxPercent |-> N(0)],
     [sellFeePercent |-> R(3, 10), taxPercent |-> R(5, 10)]}

ScenarioBodies ==
    {[sellPrice |-> p, sellFeePercent |-> r.sellFeePercent, taxPercent |-> r.taxPercent] :
        p \in {N(1), N(3), N(120)}, r \in ScenarioRates}

\* scenario lists of up to MaxScenarios scenarios, ids unique within a list
ScenarioLists ==
    UNION {{[i \in 1..k |-> [id |-> i, sellPrice |-> b[i].sellPrice,
                              sellFeePercent |-> b[i].sellFeePercent,
                              taxPercent |-> b[i].taxPercent]] :
               b \in [1..k -> ScenarioBodies]} : k \in 0..MaxScenarios}

ScenarioCalculationsInputs ==
    [fn : {"useScenarioCalculations"}, position : Positions \cup {Null},
     scenarios : ScenarioLists, feeSettings : {DefaultFeeSettings, CustomFeeSettings},
     isWarrant : BOOLEAN]

AnalysisPageInputs ==
    [fn : {"AnalysisPage.scenarioResults"}, position : Positions \cup {Null},
     scenarios : ScenarioLists, isWarrant : BOOLEAN]

CalculateScenarioInputs ==
    [fn : {"calculateScenario"}, position : Positions,
     scenario : {sl[1] : sl \in {l \in ScenarioLists : Len(l) = 1}}]

MaxWarrants == 3

\* the warrants of one underlying: two share a break-even price and a
\* volume, two share a maturity, one has no maturity (-1), one has no
\* conversion ratio yet (0)
WarrantPool ==
    {[symbol |-> "CWA", current_price |-> N(1), conversion_ratio |-> N(2),
      exercise_price |-> N(2), days_to_maturity |-> -1, volume |-> 10],
     [symbol |-> "CWB", current_price |-> N(2), conversion_ratio |-> N(1),
      exercise_price |-> N(2), days_to_maturity |-> 5, volume |-> 10],
     [symbol |-> "CWC", current_price |-> N(1), conversion_ratio |-> N(1),
      exercise_price |-> N(1), days_to_maturity |-> 20, volume |-> 30],
     [symbol |-> "CWD", current_price |-> N(3), conversion_ratio |-> N(1),
      exercise_price |-> N(2), days_to_maturity |-> 40, volume |-> 0],
     [symbol |-> "CWE", current_price |-> N(1), conversion_ratio |-> N(0),
      exercise_price |-> N(3), days_to_maturity |-> 20, volume |-> 30]}

\* lists of k distinct elements of S
DistinctLists(S, k) ==
    {l \in [1..k -> S] : \A i, j \in 1..k : i # j => l[i] # l[j]}

\* the four warrants with maturities -1, 5, 20 and 40 in every order
ExpiryExampleLists ==
    DistinctLists({w \in WarrantPool : w.conversion_ratio # N(0)}, 4)

WarrantLists ==
    UNION {DistinctLists(WarrantPool, k) : k \in 0..MaxWarrants} \cup ExpiryExampleLists

ScreenerFilters == {"all", "profitable", "unprofitable"}

ScreenerSortKeys == {"symbol", "breakEven", "margin", "expiry", "volume"}

\* underlying price and target price of the screener
ScreenerQuotes ==
    {[underlyingPrice |-> N(3), targetPrice |-> N(3)],
     [underlyingPrice |-> N(3), targetPrice |-> N(4)],
     [underlyingPrice |-> N(3), targetPrice |-> N(6)]}

\* the row lists the map step of the pipeline produces
RowLists ==
    {[i \in 1..Len(wl) |->
         calculateWarrantMetrics(wl[i], q.underlyingPrice, q.targetPrice, N(1),
                                 DefaultFeeSettings)] :
        wl \in WarrantLists, q \in ScreenerQuotes}

FilterInputs ==
    [fn : {"filterWarrantsByProfitability"}, data : RowLists, filter : ScreenerFilters]

SortInputs ==
    [fn : {"sortWarrants"}, data : RowLists, sortBy : ScreenerSortKeys]

ScreenerTargets == {Null, N(4), N(6)}

\* the page's maturity filter: off, or a minimum number of days
MinDaysChoices == {Null, N(10)}

WarrantCalculationsInputs ==
    [fn : {"useWarrantCalculations"}, warrants : WarrantLists, underlyingPrice : {N(3)},
     targetUnderlyingPrice : ScreenerTargets, feeSettings : {DefaultFeeSettings},
     quantity : {N(1)}, filterProfitable : ScreenerFilters, sortBy : ScreenerSortKeys]

WarrantsPageInputs ==
    [fn : {"WarrantsPage"}, warrants : WarrantLists, underlyingPrice : {N(3)},
     targetUnderlyingPrice : ScreenerTargets, quantity : {N(1)},
     filterProfitable : ScreenerFilters, sortBy : ScreenerSortKeys,
     minDaysToMaturity : MinDaysChoices]

CostInputs ==
    [fn : {"calculateCost"}, buyPrice : Prices, quantity : Quantities,
     buyFeePercent : Rates \cup {Undefined}]

RevenueInputs ==
    [fn : {"calculateRevenue"}, sellPrice : Prices, quantity : Quantities,
     sellFeePercent : Rates \cup {Undefined}, taxPercent : Rates \cup {Undefined}]

\* the market data of one warrant as analyzeWarrant takes it
WarrantInfos ==
    {[conversionRatio |-> N(2), exercisePrice |-> N(2), underlyingPrice |-> N(3),
      currentCwPrice |-> N(1)]}

AnalyzeWarrantInputs ==
    [fn : {"analyzeWarrant"}, position : Positions, scenarios : ScenarioLists,
     warrantInfo : WarrantInfos, targetUnderlyingPrice : {Undefined, N(0), N(5)}]

(* Calls on the scenario stores *)
MaxStoreScenarios == 2

Instants == {0, 1}

RandomSuffixes == {"k3x9q2a", "7fm0zp1"}

StoreSymbols == {NullString, "FPT", "HPG"}

StoreSellPrices == {N(1)}

StockPositions == {Null, [symbol |-> "FPT", buyPrice |-> N(2), quantity |-> N(1), buyFeePercent |-> DEFAULT_BUY_FEE_PERCENT]}

PositionUpdates == {[quantity |-> N(2)]}

\* the ids a caller can name: those of the scenarios the store holds
StockScenarioIds(s) == UNION {{s.symbolDataCache[k].scenarios[i].id : i \in 1..Len(s.symbolDataCache[k].scenarios)} : k \in DOMAIN s.symbolDataCache}

WarrantScenarioIds(s) == {s.scenarios[i].id : i \in 1..Len(s.scenarios)}

ScenarioUpdates(ids) == {[sellPrice |-> N(3)]} \cup {[id |-> i] : i \in ids}

WarrantSymbols == {NullString, "CFPT2401"}

WarrantPositions == {Null, [symbol |-> "CFPT2401", buyPrice |-> N(2), quantity |-> N(1), buyFeePercent |-> DEFAULT_BUY_FEE_PERCENT]}

StoreTargets == {Null, N(5)}

FeeSettingsUpdates == {[sellTaxPercent |-> N(0)]}

NearExpirationInputs ==
    [fn : {"isNearExpiration"},
     daysToMaturity : {N(d) : d \in (-2)..MaxDays} \cup {R(29, 2), NaN},
     warningDays : {Undefined, N(0), N(7), N(20)}]

(* Calls of the calculations module made one after another *)
CoreInstants == {0, MS_PER_DAY \div 2, MS_PER_DAY, 2 * MS_PER_DAY}

DateStrings == {"1970-01-02", "1970-01-03", "soon"}

CorePosition == [symbol |-> "AAA", buyPrice |-> N(2), quantity |-> N(1), buyFeePercent |-> R(15, 100)]

CoreScenarios == {[id |-> i, sellPrice |-> N(3), sellFeePercent |-> R(15, 100), taxPercent |-> R(1, 10)] : i \in 1..2}

CoreCalls ==
    [fn : {"calculateFees"}, buyValue : {N(2)}, sellValue : {N(3)}, buyFeePercent : {Undefined, N(0)}, sellFeePercent : {Undefined}]
    \cup [fn : {"calculateTax"}, sellValue : {N(3)}, taxPercent : {Undefined, N(0)}]
    \cup [fn : {"calculateCost"}, buyPrice : {N(2)}, quantity : {N(1), N(2)}, buyFeePercent : {Undefined}]
    \cup [fn : {"calculateRevenue"}, sellPrice : {N(3)}, quantity : {N(1), N(2)}, sellFeePercent : {Undefined}, taxPercent : {Undefined}]
    \cup [fn : {"calculateProfitLoss"}, buyPrice : {N(2)}, sellPrice : {N(1), N(3)}, quantity : {N(1)}, buyFeePercent : {Undefined}, sellFeePercent : {R(15, 100)}, taxPercent : {R(1, 10)}]
    \cup [fn : {"calculateBreakEven"}, cwPrice : {N(1)}, conversionRatio : {N(2)}, exercisePrice : {N(2)}, targetUnderlyingPrice : {Undefined, N(5)}]
    \cup [fn : {"calculateExerciseValue"}, underlyingPrice : {N(3)}, exercisePrice : {N(2)}, conversionRatio : {N(0), N(2)}, currentCwPrice : {N(1)}, quantity : {Undefined}, buyPrice : {N(1)}, buyFeePercent : {Undefined}]
    \cup [fn : {"calculateScenario"}, position : {CorePosition}, scenario : CoreScenarios]
    \cup [fn : {"analyzeWarrant"}, position : {CorePosition}, scenarios : {<<>>, <<CHOOSE s \in CoreScenarios : s.id = 1>>}, warrantInfo : WarrantInfos, targetUnderlyingPrice : {Undefined}]
    \cup [fn : {"isNearExpiration"}, daysToMaturity : {N(-1), N(14)}, warningDays : {Undefined}]
    \cup [fn : {"calculateDaysToMaturity"}, expirationDate : DateStrings]

CoreCallsOf(fn) == {c \in CoreCalls : c.fn = fn}

(* Inputs of the useLocalStorage component *)
MaxStored == 2

MaxUpdates == 2

StoredValues == 0..MaxStored

InitialValues == {0, 1}

\* what the key holds when the component mounts: nothing, JSON of a value
\* (one of them not as JSON.stringify writes it), or text that is not JSON
StorageItems == {NullString, " 1", JSONStringify(MaxStored), "{"}

Updaters == {"next"}

(* Inputs of the trading-hours functions *)
ClockMinutes == {0, 30}

ClockInstants == {(d * 24 + h) * 60 + m : d \in 0..6, h \in 0..23, m \in ClockMinutes}

PollingIntervals == {10000}

----------------------------------------------------------------------------
(* The state machine: a pending call is drawn by Init, the action of the   *)
(* called function applies it.                                             *)

NoRet == [none |-> TRUE]

\* no call of a calculation function is pending or was made
CallIdle ==
    /\ pc = "idle"
    /\ args = Null
    /\ ret = NoRet

CoreIdle == earlier = Null

\* the clock is not read
ClockIdle == wallClock = 0

\* no component uses the hook
HookIdle ==
    /\ localStorage = NullString
    /\ initialValue = 0
    /\ mounted = FALSE
    /\ storedValue = 0
    /\ isHydrated = FALSE
    /\ updateQueue = <<>>
    /\ pendingEffects = <<>>
    /\ lastCall = "none"

Init ==
    /\ pc = "ready"
    /\ ret = NoRet
    /\ StoreIdle
    /\ CoreIdle
    /\ HookIdle
    /\ ClockIdle
    /\ \/ args \in ProfitLossInputs
       \/ args \in BreakEvenInputs
       \/ args \in ExerciseValueInputs
       \/ args \in WarrantMetricsInputs
       \/ args \in WarrantsPageRowInputs
       \/ args \in TimeValueFactorInputs
       \/ args \in ScenarioCalculationsInputs
       \/ args \in AnalysisPageInputs
       \/ args \in FilterInputs
       \/ args \in SortInputs
       \/ args \in WarrantCalculationsInputs
       \/ args \in WarrantsPageInputs
       \/ args \in CostInputs
       \/ args \in RevenueInputs
       \/ args \in AnalyzeWarrantInputs
       \/ args \in NearExpirationInputs
       \/ args \in CalculateScenarioInputs

CallCalculateProfitLoss ==
    /\ pc = "ready"
    /\ args.fn = "calculateProfitLoss"
    /\ ret' = calculateProfitLoss(args.buyPrice, args.sellPrice, args.quantity,
                                  args.buyFeePercent, args.sellFeePercent,
                                  args.taxPercent)
    /\ pc' = "done"
    /\ UNCHANGED args
    /\ UNCHANGED nonCallVars

CallCalculateBreakEven ==
    /\ pc = "ready"
    /\ args.fn = "calculateBreakEven"
    /\ ret' = calculateBreakEven(args.cwPrice, args.conversionRatio,
                                 args.exercisePrice, args.targetUnderlyingPrice)
    /\ pc' = "done"
    /\ UNCHANGED args
    /\ UNCHANGED nonCallVars

CallCalculateExerciseValue ==
    /\ pc = "ready"
    /\ args.fn = "calculateExerciseValue"
    /\ ret' = calculateExerciseValue(args.underlyingPrice, args.exercisePrice,
                                     args.conversionRatio, args.currentCwPrice,
                                     args.quantity, args.buyPrice, args.buyFeePercent)
    /\ pc' = "done"
    /\ UNCHANGED args
    /\ UNCHANGED nonCallVars

CallGetTimeValueFactor ==
    /\ pc = "ready"
    /\ args.fn = "getTimeValueFactor"
    /\ ret' = [factor |-> getTimeValueFactor(args.daysToMaturity)]
    /\ pc' = "done"
    /\ UNCHANGED args
    /\ UNCHANGED nonCallVars

CallWarrantsPageTimeValueFactor ==
    /\ pc = "ready"
    /\ args.fn = "WarrantsPage.timeValueFactor"
    /\ ret' = [factor |-> WarrantsPage_timeValueFactor(args.daysToMaturity)]
    /\ pc' = "done"
    /\ UNCHANGED args
    /\ UNCHANGED nonCallVars

CallCalculateWarrantMetrics ==
    /\ pc = "ready"
    /\ args.fn = "calculateWarrantMetrics"
    /\ ret' = calculateWarrantMetrics(args.warrant, args.underlyingPrice, args.targetPrice,
                                      args.quantity, args.feeSettings)
    /\ pc' = "done"
    /\ UNCHANGED args
    /\ UNCHANGED nonCallVars

CallWarrantsPageTableDataRow ==
    /\ pc = "ready"
    /\ args.fn = "WarrantsPage.tableData"
    /\ ret' = WarrantsPage_tableDataRow(args.warrant, args.underlyingPrice, args.targetPrice,
                                        args.quantity)
    /\ pc' = "done"
    /\ UNCHANGED args
    /\ UNCHANGED nonCallVars

CallCalculateScenario ==
    /\ pc = "ready"
    /\ args.fn = "calculateScenario"
    /\ ret' = calculateScenario(args.position, args.scenario)
    /\ pc' = "done"
    /\ UNCHANGED args
    /\ UNCHANGED nonCallVars

UseScenarioCalculations ==
    /\ pc = "ready"
    /\ args.fn = "useScenarioCalculations"
    /\ ret' = useScenarioCalculations(args.position, args.scenarios,
                                      args.feeSettings, args.isWarrant)
    /\ pc' = "done"
    /\ UNCHANGED args
    /\ UNCHANGED nonCallVars

RenderAnalysisPage ==
    /\ pc = "ready"
    /\ args.fn = "AnalysisPage.scenarioResults"
    /\ ret' = AnalysisPage_render(
                  AnalysisPage_scenarioResults(args.position, args.scenarios, args.isWarrant))
    /\ pc' = "done"
    /\ UNCHANGED args
    /\ UNCHANGED nonCallVars

CallFilterWarrantsByProfitability ==
    /\ pc = "ready"
    /\ args.fn = "filterWarrantsByProfitability"
    /\ ret' = [result |-> filterWarrantsByProfitability(args.data, args.filter)]
    /\ pc' = "done"
    /\ UNCHANGED args
    /\ UNCHANGED nonCallVars

CallSortWarrants ==
    /\ pc = "ready"
    /\ args.fn = "sortWarrants"
    /\ LET r == sortWarrants(args.data, args.sortBy)
       IN  /\ ret' = [sorted |-> r.sorted]
           /\ args' = [args EXCEPT !.data = r.data]
    /\ pc' = "done"
    /\ UNCHANGED nonCallVars

UseWarrantCalculations ==
    /\ pc = "ready"
    /\ args.fn = "useWarrantCalculations"
    /\ ret' = useWarrantCalculations_return(
                  useWarrantCalculations_tableData(
                      args.warrants, args.underlyingPrice, args.targetUnderlyingPrice,
                      args.feeSettings, args.quantity, args.filterProfitable,
                      args.sortBy).tableData)
    /\ args' = [args EXCEPT !.warrants =
                   useWarrantCalculations_tableData(
                       args.warrants, args.underlyingPrice, args.targetUnderlyingPrice,
                       args.feeSettings, args.quantity, args.filterProfitable,
                       args.sortBy).warrants]
    /\ pc' = "done"
    /\ UNCHANGED nonCallVars

RenderWarrantsPage ==
    /\ pc = "ready"
    /\ args.fn = "WarrantsPage"
    /\ ret' = WarrantsPage_return(
                  WarrantsPage_tableData(
                      args.warrants, args.underlyingPrice, args.targetUnderlyingPrice,
                      args.filterProfitable, args.sortBy, args.quantity,
                      args.minDaysToMaturity).tableData)
    /\ args' = [args EXCEPT !.warrants =
                   WarrantsPage_tableData(
                       args.warrants, args.underlyingPrice, args.targetUnderlyingPrice,
                       args.filterProfitable, args.sortBy, args.quantity,
                       args.minDaysToMaturity).warrants]
    /\ pc' = "done"
    /\ UNCHANGED nonCallVars

CallCalculateCost ==
    /\ pc = "ready"
    /\ args.fn = "calculateCost"
    /\ ret' = calculateCost(args.buyPrice, args.quantity, args.buyFeePercent)
    /\ pc' = "done"
    /\ UNCHANGED args
    /\ UNCHANGED nonCallVars

CallCalculateRevenue ==
    /\ pc = "ready"
    /\ args.fn = "calculateRevenue"
    /\ ret' = calculateRevenue(args.sellPrice, args.quantity, args.sellFeePercent,
                               args.taxPercent)
    /\ pc' = "done"
    /\ UNCHANGED args
    /\ UNCHANGED nonCallVars

CallAnalyzeWarrant ==
    /\ pc = "ready"
    /\ args.fn = "analyzeWarrant"
    /\ ret' = analyzeWarrant(args.position, args.scenarios, args.warrantInfo,
                             args.targetUnderlyingPrice)
    /\ pc' = "done"
    /\ UNCHANGED args
    /\ UNCHANGED nonCallVars

CallIsNearExpiration ==
    /\ pc = "ready"
    /\ args.fn = "isNearExpiration"
    /\ ret' = [near |-> isNearExpiration(args.daysToMaturity, args.warningDays)]
    /\ pc' = "done"
    /\ UNCHANGED args
    /\ UNCHANGED nonCallVars

Next ==
    \/ CallCalculateProfitLoss
    \/ CallCalculateBreakEven
    \/ CallCalculateExerciseValue
    \/ CallGetTimeValueFactor
    \/ CallWarrantsPageTimeValueFactor
    \/ CallCalculateWarrantMetrics
    \/ CallWarrantsPageTableDataRow
    \/ CallCalculateScenario
    \/ UseScenarioCalculations
    \/ CallFilterWarrantsByProfitability
    \/ CallSortWarrants
    \/ UseWarrantCalculations
    \/ RenderWarrantsPage
    \/ CallCalculateCost
    \/ CallCalculateRevenue
    \/ CallAnalyzeWarrant
    \/ CallIsNearExpiration
    \/ RenderAnalysisPage

Spec == Init /\ [][Next]_vars

----------------------------------------------------------------------------
(* C1: calculateProfitLoss returns principal = buyPrice*quantity, buyFee = *)
(* principal*buyFeePercent/100, totalCost = principal + buyFee,            *)
(* grossRevenue = sellPrice*quantity, sellFee = grossRevenue*              *)
(* sellFeePercent/100, sellTax = grossRevenue*taxPercent/100, netRevenue = *)
(* grossRevenue - sellFee - sellTax, profit = netRevenue - totalCost and,  *)
(* when totalCost > 0, profitPercent = profit/totalCost*100, all rates in  *)
(* percent units; (10000, 12000, 100, 0.15, 0.15, 0.1) gives totalCost     *)
(* 1,001,500, netRevenue 1,197,000 and profit 195,500.                     *)
C1_ProfitLossFormulas ==
    (pc = "done" /\ args.fn = "calculateProfitLoss") =>
        LET bfp == Dflt(args.buyFeePercent, R(15, 100))
            principal == Mul(args.buyPrice, args.quantity)
            gross == Mul(args.sellPrice, args.quantity)
        IN  /\ ret.cost.principal = principal
            /\ ret.cost.buyFee = Div(Mul(principal, bfp), N(100))
            /\ ret.cost.totalCost = Add(ret.cost.principal, ret.cost.buyFee)
            /\ ret.revenue.grossRevenue = gross
            /\ ret.revenue.sellFee = Div(Mul(gross, args.sellFeePercent), N(100))
            /\ ret.revenue.sellTax = Div(Mul(gross, args.taxPercent), N(100))
            /\ ret.revenue.netRevenue =
                   Sub(Sub(gross, ret.revenue.sellFee), ret.revenue.sellTax)
            /\ ret.profit = Sub(ret.revenue.netRevenue, ret.cost.totalCost)
            /\ (Gt(ret.cost.totalCost, N(0)) =>
                   /\ IsFinite(ret.profitPercent)
                   /\ Mul(ret.profitPercent, ret.cost.totalCost)
                        = Mul(ret.profit, N(100)))
            /\ (args = ProfitLossExample =>
                   /\ ret.cost.totalCost = N(1001500)
                   /\ ret.revenue.netRevenue = N(1197000)
                   /\ ret.profit = N(195500))

C1_Witness ==
    /\ pc = "done"
    /\ args = ProfitLossExample
    /\ ret.profit = N(195500)

----------------------------------------------------------------------------
Done(f) == pc = "done" /\ args.fn = f

(* C4: calculateBreakEven returns breakEvenPrice = warrantPrice *          *)
(* conversionRatio + exercisePrice; for warrantPrice >= 0 and              *)
(* conversionRatio > 0 it is >= exercisePrice, and for fixed               *)
(* conversionRatio > 0 and exercisePrice it is strictly increasing in      *)
(* warrantPrice; (1500, 4, 45000) gives 51000.                             *)
C4_BreakEvenPrice ==
    Done("calculateBreakEven") =>
        LET w == args.cwPrice
            r == args.conversionRatio
            e == args.exercisePrice
        IN  /\ ret.breakEvenPrice = R(w.n * r.n * e.d + e.n * w.d * r.d, w.d * r.d * e.d)
            /\ (Gt(r, N(0)) /\ Ge(w, N(0))) => Ge(ret.breakEvenPrice, e)
            /\ \A w2 \in Prices :
                   (Gt(r, N(0)) /\ Gt(w2, w)) =>
                       Gt(calculateBreakEven(w2, r, e, args.targetUnderlyingPrice).breakEvenPrice,
                          ret.breakEvenPrice)
            /\ (w = N(1500) /\ r = N(4) /\ e = N(45000)) => ret.breakEvenPrice = N(51000)

C4_Witness ==
    /\ Done("calculateBreakEven")
    /\ args.cwPrice = N(1500)
    /\ args.conversionRatio = N(4)
    /\ ret.breakEvenPrice = N(51000)

(* C5: for every targetUnderlyingPrice that is supplied, isProfitable =    *)
(* (target > breakEvenPrice), strictly; profitMargin = target -            *)
(* breakEvenPrice; profitMarginPercent = profitMargin / breakEvenPrice *   *)
(* 100 when breakEvenPrice is not 0.                                       *)
C5_TargetSupplied ==
    (Done("calculateBreakEven") /\ args.targetUnderlyingPrice # Undefined
       /\ Gt(args.conversionRatio, N(0))) =>
        /\ ret.isProfitable = Gt(args.targetUnderlyingPrice, ret.breakEvenPrice)
        /\ ret.profitMargin = Sub(args.targetUnderlyingPrice, ret.breakEvenPrice)
        /\ (ret.breakEvenPrice # N(0) =>
               ret.profitMarginPercent =
                   Mul(Div(ret.profitMargin, ret.breakEvenPrice), N(100)))

(* C6: when targetUnderlyingPrice is omitted calculateBreakEven still      *)
(* returns breakEvenPrice = warrantPrice*conversionRatio + exercisePrice,  *)
(* with isProfitable = false, profitMargin = 0, profitMarginPercent = 0.   *)
C6_TargetOmitted ==
    (Done("calculateBreakEven") /\ args.targetUnderlyingPrice = Undefined) =>
        /\ IsFinite(ret.breakEvenPrice)
        /\ ret.breakEvenPrice =
               Add(Mul(args.cwPrice, args.conversionRatio), args.exercisePrice)
        /\ ret.isProfitable = FALSE
        /\ ret.profitMargin = N(0)
        /\ ret.profitMarginPercent = N(0)

C6_Witness ==
    /\ Done("calculateBreakEven")
    /\ args.targetUnderlyingPrice = Undefined
    /\ ret.breakEvenPrice = N(51000)
    /\ ~ret.isProfitable

(* C7 as stated: exerciseProfit is computed only when both quantity and    *)
(* buyPrice are supplied by the caller, as intrinsicValue*quantity -       *)
(* totalCost(buyPrice, quantity, buyFeePercent); when quantity or buyPrice *)
(* is not supplied, exerciseProfit is 0.                                   *)
C7_OnlyWhenBothSupplied ==
    (Done("calculateExerciseValue") /\ Gt(args.conversionRatio, N(0))) =>
        IF args.quantity # Undefined /\ args.buyPrice # Undefined
        THEN ret.exerciseProfit =
                 Sub(Mul(ret.intrinsicValue, args.quantity),
                     calculateCost(args.buyPrice, args.quantity, args.buyFeePercent).totalCost)
        ELSE ret.exerciseProfit = N(0)

(* C7 amended: an omitted quantity defaults to 1.  exerciseProfit is       *)
(* computed when buyPrice is supplied and the quantity (1 when omitted) is *)
(* > 0, as intrinsicValue*quantity - totalCost(buyPrice, quantity,         *)
(* buyFeePercent) with no sell fee and no sell tax deducted; it is 0 when  *)
(* buyPrice is not supplied or the quantity is not > 0.                    *)
C7_ExerciseProfit ==
    Done("calculateExerciseValue") =>
        LET q == IF args.quantity = Undefined THEN N(1) ELSE args.quantity
            fee == IF args.buyFeePercent = Undefined THEN R(15, 100) ELSE args.buyFeePercent
            principal == Mul(args.buyPrice, q)
            totalCost == Add(principal, Div(Mul(principal, fee), N(100)))
        IN  IF args.buyPrice # Undefined /\ Gt(q, N(0))
            THEN ret.exerciseProfit = Sub(Mul(ret.intrinsicValue, q), totalCost)
            ELSE ret.exerciseProfit = N(0)

C7_Witness ==
    /\ Done("calculateExerciseValue")
    /\ args.quantity = Undefined
    /\ args.buyPrice = N(1)
    /\ args.buyFeePercent = N(0)
    /\ ret.intrinsicValue = N(3)
    /\ ret.exerciseProfit = N(2)

(* C8: for conversionRatio > 0, intrinsicValue = max(0, (underlyingPrice - *)
(* exercisePrice)/conversionRatio), timeValue = max(0, currentWarrantPrice *)
(* - intrinsicValue), isInTheMoney = (underlyingPrice > exercisePrice),    *)
(* strictly; both values are >= 0, and in the money with                   *)
(* currentWarrantPrice >= intrinsicValue the timeValue is exactly          *)
(* currentWarrantPrice - intrinsicValue.                                   *)
C8_IntrinsicTimeValue ==
    (Done("calculateExerciseValue") /\ Gt(args.conversionRatio, N(0))) =>
        LET u == args.underlyingPrice
            e == args.exercisePrice
            r == args.conversionRatio
            cw == args.currentCwPrice
            iv == IF Gt(u, e) THEN Div(Sub(u, e), r) ELSE N(0)
        IN  /\ ret.intrinsicValue = iv
            /\ ret.timeValue = (IF Gt(cw, iv) THEN Sub(cw, iv) ELSE N(0))
            /\ ret.isInTheMoney = Gt(u, e)
            /\ IsFinite(ret.intrinsicValue) /\ ret.intrinsicValue.n >= 0
            /\ IsFinite(ret.timeValue) /\ ret.timeValue.n >= 0
            /\ (ret.isInTheMoney /\ Ge(cw, ret.intrinsicValue)) =>
                   Add(ret.intrinsicValue, ret.timeValue) = cw

C8_Witness ==
    /\ Done("calculateExerciseValue")
    /\ Gt(args.conversionRatio, N(1))
    /\ ret.isInTheMoney
    /\ Gt(ret.intrinsicValue, N(0))
    /\ Gt(ret.timeValue, N(0))
    /\ ret.intrinsicValue.d > 1

IsRow == Done("calculateWarrantMetrics") \/ Done("WarrantsPage.tableData")

(* C3: for every warrant whose conversionRatio is 0 (or whose              *)
(* exercisePrice is 0) and every underlying/target price, computing the    *)
(* screener row and calling calculateExerciseValue performs no division by *)
(* zero and yields a defined finite number in every numeric field.         *)
C3_FiniteOnMissingMarketData ==
    /\ (IsRow /\ (args.warrant.conversion_ratio = N(0) \/ args.warrant.exercise_price = N(0))) =>
           /\ IsFinite(ret.breakEven)
           /\ IsFinite(ret.profitMargin)
           /\ IsFinite(ret.profitMarginPercent)
           /\ IsFinite(ret.totalCost)
           /\ IsFinite(ret.netRevenue)
           /\ IsFinite(ret.estimatedProfit)
           /\ IsFinite(ret.estimatedProfitPercent)
           /\ IsFinite(ret.leverage)
    /\ (Done("calculateExerciseValue")
          /\ (args.conversionRatio = N(0) \/ args.exercisePrice = N(0))) =>
           /\ IsFinite(ret.exerciseValue)
           /\ IsFinite(ret.intrinsicValue)
           /\ IsFinite(ret.timeValue)
           /\ IsFinite(ret.exerciseProfit)

\* the fee settings a row is computed with: the page has none of its own and
\* uses the DEFAULT_* rates
RowFees == IF args.fn = "calculateWarrantMetrics" THEN args.feeSettings
           ELSE [buyFeePercent |-> R(15, 100), sellFeePercent |-> R(15, 100),
                 sellTaxPercent |-> R(1, 10)]

C10_DecayBuckets ==
    (Done("getTimeValueFactor") \/ Done("WarrantsPage.timeValueFactor")) =>
        LET d == args.daysToMaturity
        IN  /\ d > 30 => ret.factor = N(1)
            /\ (14 < d /\ d <= 30) => ret.factor = R(8, 10)
            /\ d <= 14 => ret.factor = R(5, 10)
            /\ d = 31 => ret.factor = N(1)
            /\ d \in {15, 30} => ret.factor.n * 5 = 4 * ret.factor.d
            /\ d = 14 => ret.factor.n * 2 = ret.factor.d
            /\ d < 0 => ret.factor.n * 2 = ret.factor.d

C10_Witness ==
    /\ Done("getTimeValueFactor")
    /\ args.daysToMaturity = 30
    /\ ret.factor = R(4, 5)

(* C2: in the scenario table builder every scenario row is computed by the *)
(* profit/loss evaluator with that scenario's own sellFeePercent and       *)
(* taxPercent (every scenario of a list specifies its rates), whatever     *)
(* feeSettings holds.                                                      *)
C2_RowsUseScenarioRates ==
    ((Done("useScenarioCalculations") \/ Done("AnalysisPage.scenarioResults"))
       /\ args.position # Null) =>
        /\ Len(ret.scenarioResults) = Len(args.scenarios)
        /\ \A i \in 1..Len(args.scenarios) :
               LET sc == args.scenarios[i]
                   row == ret.scenarioResults[i]
                   gross == Mul(sc.sellPrice, args.position.quantity)
               IN  /\ row.grossRevenue = gross
                   /\ row.sellFee = Div(Mul(gross, sc.sellFeePercent), N(100))
                   /\ row.sellTax = Div(Mul(gross, sc.taxPercent), N(100))
                   /\ row.netRevenue = Sub(Sub(gross, row.sellFee), row.sellTax)

----------------------------------------------------------------------------
(* The screener's filter and sort *)

\* the rows the map step computes for a finished screener run
ComputedRows ==
    IF args.fn = "useWarrantCalculations"
    THEN [i \in 1..Len(args.warrants) |->
             calculateWarrantMetrics(args.warrants[i], args.underlyingPrice,
                 IF args.targetUnderlyingPrice = Null THEN args.underlyingPrice
                 ELSE args.targetUnderlyingPrice,
                 args.quantity, args.feeSettings)]
    ELSE [i \in 1..Len(args.warrants) |->
             WarrantsPage_tableDataRow(args.warrants[i], args.underlyingPrice,
                 IF args.targetUnderlyingPrice = Null THEN args.underlyingPrice
                 ELSE args.targetUnderlyingPrice,
                 args.quantity)]

Range(s) == {s[i] : i \in 1..Len(s)}

\* C11: the profitability filter keeps every row under 'all', exactly the
\* rows with estimatedProfit > 0 under 'profitable' and exactly the other
\* rows under 'unprofitable', in the hook's filter, in the hook's pipeline
\* and in the page's pipeline (maturity filter off), whatever isProfitable is.
\* Stated for warrants with a positive conversion ratio.
C11_FilterByEstimatedProfit ==
    /\ Done("filterWarrantsByProfitability") =>
          LET kept == Range(ret.result)
              rows == Range(args.data)
          IN  (\A w \in rows : Gt(w.conversion_ratio, N(0))) =>
                 CASE args.filter = "all" -> kept = rows
                   [] args.filter = "profitable" ->
                          kept = {w \in rows : Gt(w.estimatedProfit, N(0))}
                   [] OTHER -> kept = {w \in rows : ~Gt(w.estimatedProfit, N(0))}
    /\ (/\ pc = "done"
        /\ args.fn \in {"useWarrantCalculations", "WarrantsPage"}
        /\ args.fn = "WarrantsPage" => args.minDaysToMaturity = Null
        /\ \A i \in 1..Len(args.warrants) : Gt(args.warrants[i].conversion_ratio, N(0))) =>
          LET kept == Range(ret.tableData)
              rows == Range(ComputedRows)
          IN  CASE args.filterProfitable = "all" -> kept = rows
                [] args.filterProfitable = "profitable" ->
                       kept = {w \in rows : Gt(w.estimatedProfit, N(0))}
                [] OTHER -> kept = {w \in rows : ~Gt(w.estimatedProfit, N(0))}

\* a finished sort: its input list, its output list and its key
SortDone ==
    /\ pc = "done"
    /\ args.fn \in {"sortWarrants", "useWarrantCalculations", "WarrantsPage"}

SortKey == args.sortBy

SortInput == IF args.fn = "sortWarrants" THEN args.data ELSE ComputedRows

SortOutput == IF args.fn = "sortWarrants" THEN ret.sorted ELSE ret.tableData

Position(s, x) == CHOOSE i \in 1..Len(s) : s[i] = x

SymbolRank(w) == CHOOSE i \in 1..Len(SymbolOrder) : SymbolOrder[i] = w.symbol

\* a may stand before b under the key
KeyOrdered(sortBy, a, b) ==
    CASE sortBy = "symbol" -> SymbolRank(a) <= SymbolRank(b)
      [] sortBy = "breakEven" -> Le(a.breakEven, b.breakEven)
      [] sortBy = "margin" -> Ge(a.profitMarginPercent, b.profitMarginPercent)
      [] sortBy = "volume" -> a.volume >= b.volume
      [] OTHER -> TRUE

KeyEqual(sortBy, a, b) ==
    CASE sortBy = "symbol" -> a.symbol = b.symbol
      [] sortBy = "breakEven" -> a.breakEven = b.breakEven
      [] sortBy = "margin" -> a.profitMarginPercent = b.profitMarginPercent
      [] sortBy = "volume" -> a.volume = b.volume
      [] OTHER -> a.days_to_maturity = b.days_to_maturity

\* C12: the sorted list holds each row of its input at most once and nothing
\* else (all of them for sortWarrants: a permutation), any two of its rows
\* stand in the order of the key (symbol ascending, breakEven ascending,
\* profitMarginPercent descending, volume descending), and two rows with
\* equal keys stand as they stood in the input.
C12_SortedStablePermutation ==
    SortDone =>
       LET out == SortOutput
           inp == SortInput
       IN  /\ \A i, j \in 1..Len(out) : i # j => out[i] # out[j]
           /\ Range(out) \subseteq Range(inp)
           /\ args.fn = "sortWarrants" => Range(out) = Range(inp) /\ Len(out) = Len(inp)
           /\ \A i, j \in 1..Len(out) :
                 i < j =>
                    /\ KeyOrdered(SortKey, out[i], out[j])
                    /\ KeyEqual(SortKey, out[i], out[j]) =>
                          Position(inp, out[i]) < Position(inp, out[j])

\* a sort that moved rows and kept a tie in input order
C12_Witness ==
    /\ Done("sortWarrants")
    /\ args.sortBy = "breakEven"
    /\ ret.sorted # args.data
    /\ \E i \in 1..Len(ret.sorted) - 1 :
          /\ ret.sorted[i].breakEven = ret.sorted[i + 1].breakEven
          /\ ret.sorted[i].symbol = "CWB"
          /\ ret.sorted[i + 1].symbol = "CWA"

DaysOf(rows) == [i \in 1..Len(rows) |-> rows[i].days_to_maturity]

\* C13: under 'expiry' every row with days_to_maturity >= 0 stands before
\* every row with days_to_maturity < 0 and the rows with known maturity are
\* in ascending days order; rows with days -1, 5, 20, 40 come out 5, 20, 40, -1.
C13_ExpiryUnknownLast ==
    (SortDone /\ SortKey = "expiry") =>
       LET out == SortOutput
       IN  /\ \A i, j \in 1..Len(out) :
                 i < j =>
                    /\ out[i].days_to_maturity < 0 => out[j].days_to_maturity < 0
                    /\ out[j].days_to_maturity >= 0 =>
                          out[i].days_to_maturity <= out[j].days_to_maturity
           /\ Range(DaysOf(out)) = {-1, 5, 20, 40} /\ Len(out) = 4 =>
                 DaysOf(out) = <<5, 20, 40, -1>>

\* the example list, given with the unknown maturity first
C13_Witness ==
    /\ Done("sortWarrants")
    /\ args.sortBy = "expiry"
    /\ DaysOf(args.data) = <<-1, 40, 20, 5>>
    /\ DaysOf(ret.sorted) = <<5, 20, 40, -1>>

----------------------------------------------------------------------------
(* Scenario rows and their summary *)

ScenarioTableDone ==
    /\ Done("useScenarioCalculations") \/ Done("AnalysisPage.scenarioResults")
    /\ args.position # Null

\* C14: for a stock position with quantity > 0 each scenario row has
\* breakEvenPrice*quantity = principal + buyFee + sellFee + sellTax, the sell
\* fee and tax being those of that scenario (its own rates on its gross
\* revenue) and the buy fee that of the position; with quantity not positive
\* the row reports 0; the rows of a warrant position have no breakEvenPrice.
C14_BreakEvenRecoversCost ==
    ScenarioTableDone =>
       \A i \in 1..Len(ret.scenarioResults) :
          LET sc == args.scenarios[i]
              row == ret.scenarioResults[i]
              pos == args.position
              principal == Mul(pos.buyPrice, pos.quantity)
              buyFee == Div(Mul(principal, pos.buyFeePercent), N(100))
              gross == Mul(sc.sellPrice, pos.quantity)
              sellFee == Div(Mul(gross, sc.sellFeePercent), N(100))
              sellTax == Div(Mul(gross, sc.taxPercent), N(100))
          IN  IF args.isWarrant THEN row.breakEvenPrice = Undefined
              ELSE IF Gt(pos.quantity, N(0))
              THEN Mul(row.breakEvenPrice, pos.quantity) =
                      Add(Add(Add(principal, buyFee), sellFee), sellTax)
              ELSE row.breakEvenPrice = N(0)

SummaryDone == Done("useScenarioCalculations") \/ Done("AnalysisPage.scenarioResults")

\* the statistics a finished builder reports: the hook's summary or the
\* page's scenarioStats
SummaryOf == IF args.fn = "useScenarioCalculations" THEN ret.summary ELSE ret.scenarioStats

BestProfitOf(s) == IF "best" \in DOMAIN s THEN s.best.profit ELSE s.bestProfit

BestPercentOf(s) == IF "best" \in DOMAIN s THEN s.best.profitPercent ELSE s.bestProfitPercent

WorstProfitOf(s) == IF "worst" \in DOMAIN s THEN s.worst.profit ELSE s.worstProfit

WorstPercentOf(s) == IF "worst" \in DOMAIN s THEN s.worst.profitPercent ELSE s.worstProfitPercent

RECURSIVE TotalOf(_)
TotalOf(xs) == IF xs = <<>> THEN N(0) ELSE Add(Head(xs), TotalOf(Tail(xs)))

\* best and worst profit with their percents, and the two means, as claimed
SummaryValues(rows, s) ==
    /\ \A i \in 1..Len(rows) : Le(rows[i].profit, BestProfitOf(s))
    /\ \E i \in 1..Len(rows) : /\ rows[i].profit = BestProfitOf(s)
                               /\ rows[i].profitPercent = BestPercentOf(s)
    /\ \A i \in 1..Len(rows) : Ge(rows[i].profit, WorstProfitOf(s))
    /\ \E i \in 1..Len(rows) : /\ rows[i].profit = WorstProfitOf(s)
                               /\ rows[i].profitPercent = WorstPercentOf(s)
    /\ Mul(s.avgProfit, N(Len(rows))) =
          TotalOf([i \in 1..Len(rows) |-> rows[i].profit])
    /\ Mul(s.avgProfitPercent, N(Len(rows))) =
          TotalOf([i \in 1..Len(rows) |-> rows[i].profitPercent])

\* C15: there are summary statistics exactly when there is at least one
\* scenario row; then the best (worst) profit is the largest (smallest) row
\* profit, the best (worst) percent is the profitPercent of a row with that
\* profit, the averages are the means of the rows' profit and profitPercent,
\* and the statistics report the number of rows with profit > 0 and the
\* number of rows.
C15_SummaryStatistics ==
    SummaryDone =>
       LET rows == ret.scenarioResults
           s == SummaryOf
       IN  IF Len(rows) = 0 THEN s = Null
           ELSE /\ s # Null
                /\ SummaryValues(rows, s)
                /\ {"profitableCount", "totalCount"} \subseteq DOMAIN s
                /\ s.profitableCount =
                      Cardinality({i \in 1..Len(rows) : Gt(rows[i].profit, N(0))})
                /\ s.totalCount = Len(rows)

\* every statistic a builder does report has the stated value: the same
\* statement with the two counts asked of the page's scenarioStats only
SummaryValuesReported ==
    SummaryDone =>
       LET rows == ret.scenarioResults
           s == SummaryOf
       IN  IF Len(rows) = 0 THEN s = Null
           ELSE /\ s # Null
                /\ SummaryValues(rows, s)
                /\ args.fn = "AnalysisPage.scenarioResults" =>
                      /\ s.profitableCount =
                            Cardinality({i \in 1..Len(rows) : Gt(rows[i].profit, N(0))})
                      /\ s.totalCount = Len(rows)

----------------------------------------------------------------------------
(* Invariants of the evaluators *)

\* C16: for every result of calculateProfitLoss isProfit is true exactly
\* when profit > 0, so a profit of exactly 0 has isProfit false; the rows of
\* the scenario builders carry the same flag.
C16_IsProfitStrict ==
    /\ Done("calculateProfitLoss") =>
          /\ ret.isProfit <=> (IsFinite(ret.profit) /\ ret.profit.n > 0)
          /\ ret.profit = N(0) => ~ret.isProfit
    /\ SummaryDone =>
          \A i \in 1..Len(ret.scenarioResults) :
             ret.scenarioResults[i].isProfit <=> ret.scenarioResults[i].profit.n > 0

\* a real trade that ends exactly even
C16_Witness ==
    /\ Done("calculateProfitLoss")
    /\ Gt(args.buyPrice, N(0))
    /\ Gt(args.quantity, N(0))
    /\ ret.profit = N(0)
    /\ ~ret.isProfit

\* C17: calculateProfitLoss returns profitPercent = 0 when totalCost is 0
\* and calculateBreakEven returns profitMarginPercent = 0 when
\* breakEvenPrice is 0, and in both cases the other fields have the values
\* of their formulas.
C17_DivisionGuards ==
    /\ (Done("calculateProfitLoss") /\ ret.cost.totalCost = N(0)) =>
          LET gross == Mul(args.sellPrice, args.quantity)
              net == Sub(Sub(gross, Div(Mul(gross, args.sellFeePercent), N(100))),
                         Div(Mul(gross, args.taxPercent), N(100)))
          IN  /\ ret.profitPercent = N(0)
              /\ ret.revenue.grossRevenue = gross
              /\ ret.revenue.netRevenue = net
              /\ ret.profit = net
              /\ ret.isProfit <=> Gt(net, N(0))
    /\ (Done("calculateBreakEven") /\ ret.breakEvenPrice = N(0)) =>
          LET t == args.targetUnderlyingPrice
          IN  /\ ret.profitMarginPercent = N(0)
              /\ ret.profitMargin = (IF t = Undefined THEN N(0) ELSE t)
              /\ ret.isProfitable <=> (t # Undefined /\ Gt(t, N(0)))

\* a sale of units that cost nothing: a profit, reported with 0 percent
C17_Witness ==
    /\ Done("calculateProfitLoss")
    /\ ret.cost.totalCost = N(0)
    /\ Gt(ret.profit, N(0))
    /\ ret.profitPercent = N(0)

\* the rows a finished screener computation holds, with the underlying
\* price they were computed for
ScreenerRows ==
    IF pc # "done" THEN {}
    ELSE IF IsRow THEN {ret}
    ELSE IF args.fn \in {"useWarrantCalculations", "WarrantsPage"} THEN Range(ret.tableData)
    ELSE {}

\* C18: every screener row has leverage = underlyingPrice / (warrantPrice *
\* conversionRatio) when warrantPrice and conversionRatio are both non-zero
\* and leverage = 0 when one of them is 0.
C18_Leverage ==
    \A row \in ScreenerRows :
       IF row.current_price # N(0) /\ row.conversion_ratio # N(0)
       THEN Mul(row.leverage, Mul(row.current_price, row.conversion_ratio)) =
               args.underlyingPrice
       ELSE row.leverage = N(0)

\* a priced warrant without a conversion ratio
C18_Witness ==
    /\ Done("calculateWarrantMetrics")
    /\ Gt(args.warrant.current_price, N(0))
    /\ args.warrant.conversion_ratio = N(0)
    /\ Gt(args.underlyingPrice, N(0))
    /\ ret.leverage = N(0)

\* C19: for buyPrice > 0, quantity > 0 and buyFeePercent >= 0 calculateCost
\* gives totalCost >= principal, with equality exactly when buyFeePercent
\* is 0; for sellPrice >= 0, quantity >= 0 and sellFeePercent, taxPercent
\* >= 0 calculateRevenue gives netRevenue <= grossRevenue.
C19_FeesNeverImprove ==
    /\ (Done("calculateCost") /\ Gt(args.buyPrice, N(0)) /\ Gt(args.quantity, N(0))) =>
          LET fee == Dflt(args.buyFeePercent, DEFAULT_BUY_FEE_PERCENT)
          IN  /\ Ge(fee, N(0))
              /\ ret.principal = Mul(args.buyPrice, args.quantity)
              /\ Ge(ret.totalCost, ret.principal)
              /\ ret.totalCost = ret.principal <=> fee = N(0)
    /\ Done("calculateRevenue") =>
          /\ ret.grossRevenue = Mul(args.sellPrice, args.quantity)
          /\ Le(ret.netRevenue, ret.grossRevenue)

\* a purchase with a fee: the cost exceeds the principal
C19_Witness ==
    /\ Done("calculateCost")
    /\ Gt(args.buyPrice, N(0))
    /\ Gt(args.quantity, N(0))
    /\ args.buyFeePercent = R(15, 100)
    /\ Gt(ret.totalCost, ret.principal)

----------------------------------------------------------------------------
(* Frame *)

\* C20: no calculation changes its inputs: a run of the screener pipeline
\* (map, filter, sort, in the hook and in the page, and sortWarrants on its
\* own), of a scenario table builder or of analyzeWarrant leaves the warrant
\* list, the position and the scenario list as they were passed, in order
\* and in every field.
C20_InputsUnchanged ==
    [][args.fn \in {"sortWarrants", "useWarrantCalculations", "WarrantsPage",
                    "useScenarioCalculations", "AnalysisPage.scenarioResults",
                    "analyzeWarrant"}
          => args' = args]_vars

\* a screener run whose table is in another order than the list it was given
C20_Witness ==
    /\ Done("useWarrantCalculations")
    /\ args.filterProfitable = "all"
    /\ args.sortBy = "volume"
    /\ Len(ret.tableData) = Len(args.warrants)
    /\ Len(args.warrants) >= 2
    /\ [i \in 1..Len(ret.tableData) |-> ret.tableData[i].symbol] #
          [i \in 1..Len(args.warrants) |-> args.warrants[i].symbol]
    /\ args.warrants[1].volume < args.warrants[2].volume

----------------------------------------------------------------------------
(* The scenario stores as a state machine: the user of one store issues    *)
(* its actions in any order while the clock advances.                      *)

StoreInit ==
    /\ now = 0
    /\ storeInUse \in {"stock", "warrant"}
    /\ stockStore = useStockStore_initialState
    /\ warrantStore = useWarrantStore_initialState
    /\ CallIdle
    /\ CoreIdle
    /\ HookIdle
    /\ ClockIdle

StockStoreSize == Cardinality(UNION {{<<k, i>> : i \in 1..Len(stockStore.symbolDataCache[k].scenarios)} : k \in DOMAIN stockStore.symbolDataCache})

stockStoreFrame == <<now, storeInUse, warrantStore, nonStoreVars>>

warrantStoreFrame == <<now, storeInUse, stockStore, nonStoreVars>>

Tick ==
    /\ \E t \in Instants : t > now /\ now' = t
    /\ UNCHANGED <<storeInUse, stockStore, warrantStore, nonStoreVars>>

StockSetCurrentSymbol ==
    /\ storeInUse = "stock"
    /\ \E symbol \in StoreSymbols : stockStore' = useStockStore_setCurrentSymbol(stockStore, symbol)
    /\ UNCHANGED stockStoreFrame

StockSetPosition ==
    /\ storeInUse = "stock"
    /\ \E position \in StockPositions : stockStore' = useStockStore_setPosition(stockStore, position)
    /\ UNCHANGED stockStoreFrame

StockUpdatePosition ==
    /\ storeInUse = "stock"
    /\ \E updates \in PositionUpdates : stockStore' = useStockStore_updatePosition(stockStore, updates)
    /\ UNCHANGED stockStoreFrame

StockAddScenario ==
    /\ storeInUse = "stock"
    /\ StockStoreSize < MaxStoreScenarios
    /\ \E sellPrice \in StoreSellPrices, random \in RandomSuffixes : stockStore' = useStockStore_addScenario(stockStore, sellPrice, now, random)
    /\ UNCHANGED stockStoreFrame

StockUpdateScenario ==
    /\ storeInUse = "stock"
    /\ \E id \in StockScenarioIds(stockStore), updates \in ScenarioUpdates(StockScenarioIds(stockStore)) : stockStore' = useStockStore_updateScenario(stockStore, id, updates)
    /\ UNCHANGED stockStoreFrame

StockRemoveScenario ==
    /\ storeInUse = "stock"
    /\ \E id \in StockScenarioIds(stockStore) : stockStore' = useStockStore_removeScenario(stockStore, id)
    /\ UNCHANGED stockStoreFrame

StockClearScenarios ==
    /\ storeInUse = "stock"
    /\ stockStore' = useStockStore_clearScenarios(stockStore)
    /\ UNCHANGED stockStoreFrame

StockReset ==
    /\ storeInUse = "stock"
    /\ stockStore' = useStockStore_reset(stockStore)
    /\ UNCHANGED stockStoreFrame

WarrantSetCurrentWarrant ==
    /\ storeInUse = "warrant"
    /\ \E symbol \in WarrantSymbols : warrantStore' = useWarrantStore_setCurrentWarrant(warrantStore, symbol)
    /\ UNCHANGED warrantStoreFrame

WarrantSetPosition ==
    /\ storeInUse = "warrant"
    /\ \E position \in WarrantPositions : warrantStore' = useWarrantStore_setPosition(warrantStore, position)
    /\ UNCHANGED warrantStoreFrame

WarrantUpdatePosition ==
    /\ storeInUse = "warrant"
    /\ \E updates \in PositionUpdates : warrantStore' = useWarrantStore_updatePosition(warrantStore, updates)
    /\ UNCHANGED warrantStoreFrame

WarrantAddScenario ==
    /\ storeInUse = "warrant"
    /\ Len(warrantStore.scenarios) < MaxStoreScenarios
    /\ \E sellPrice \in StoreSellPrices, random \in RandomSuffixes : warrantStore' = useWarrantStore_addScenario(warrantStore, sellPrice, now, random)
    /\ UNCHANGED warrantStoreFrame

WarrantUpdateScenario ==
    /\ storeInUse = "warrant"
    /\ \E id \in WarrantScenarioIds(warrantStore), updates \in ScenarioUpdates(WarrantScenarioIds(warrantStore)) : warrantStore' = useWarrantStore_updateScenario(warrantStore, id, updates)
    /\ UNCHANGED warrantStoreFrame

WarrantRemoveScenario ==
    /\ storeInUse = "warrant"
    /\ \E id \in WarrantScenarioIds(warrantStore) : warrantStore' = useWarrantStore_removeScenario(warrantStore, id)
    /\ UNCHANGED warrantStoreFrame

WarrantClearScenarios ==
    /\ storeInUse = "warrant"
    /\ warrantStore' = useWarrantStore_clearScenarios(warrantStore)
    /\ UNCHANGED warrantStoreFrame

WarrantSetTargetUnderlyingPrice ==
    /\ storeInUse = "warrant"
    /\ \E price \in StoreTargets : warrantStore' = useWarrantStore_setTargetUnderlyingPrice(warrantStore, price)
    /\ UNCHANGED warrantStoreFrame

WarrantSetSelectedUnderlying ==
    /\ storeInUse = "warrant"
    /\ \E symbol \in {NullString, "FPT"} : warrantStore' = useWarrantStore_setSelectedUnderlying(warrantStore, symbol)
    /\ UNCHANGED warrantStoreFrame

WarrantSetFeeSettings ==
    /\ storeInUse = "warrant"
    /\ \E settings \in FeeSettingsUpdates : warrantStore' = useWarrantStore_setFeeSettings(warrantStore, settings)
    /\ UNCHANGED warrantStoreFrame

WarrantReset ==
    /\ storeInUse = "warrant"
    /\ warrantStore' = useWarrantStore_reset(warrantStore)
    /\ UNCHANGED warrantStoreFrame

StoreNext ==
    \/ Tick
    \/ StockSetCurrentSymbol
    \/ StockSetPosition
    \/ StockUpdatePosition
    \/ StockAddScenario
    \/ StockUpdateScenario
    \/ StockRemoveScenario
    \/ StockClearScenarios
    \/ StockReset
    \/ WarrantSetCurrentWarrant
    \/ WarrantSetPosition
    \/ WarrantUpdatePosition
    \/ WarrantAddScenario
    \/ WarrantUpdateScenario
    \/ WarrantRemoveScenario
    \/ WarrantClearScenarios
    \/ WarrantSetTargetUnderlyingPrice
    \/ WarrantSetSelectedUnderlying
    \/ WarrantSetFeeSettings
    \/ WarrantReset

StoreSpec == StoreInit /\ [][StoreNext]_vars

----------------------------------------------------------------------------
UniqueIds(scenarios) == \A i, j \in 1..Len(scenarios) : scenarios[i].id = scenarios[j].id => i = j

StockScenarioLists == {stockStore.symbolDataCache[k].scenarios : k \in DOMAIN stockStore.symbolDataCache}

(* C21: scenario ids are unique within a scenario list: after any sequence *)
(* of addScenario, updateScenario, removeScenario and clearScenarios calls *)
(* on the stock store or the warrant store (several addScenario calls      *)
(* within the same millisecond included), no two scenarios of one scenario *)
(* list have the same id.                                                  *)
C21_ScenarioIdsUnique ==
    /\ \A scenarios \in StockScenarioLists : UniqueIds(scenarios)
    /\ UniqueIds(warrantStore.scenarios)

----------------------------------------------------------------------------
(* The scenario list the user of the store in use works on, and the rows   *)
(* rendered from it.                                                       *)
ScenariosIn(stock, warrant) == IF storeInUse = "stock" THEN useStockStore_scenarios(stock) ELSE warrant.scenarios

PositionIn(stock, warrant) == IF storeInUse = "stock" THEN useStockStore_position(stock) ELSE warrant.position

ScenariosBefore == ScenariosIn(stockStore, warrantStore)

ScenariosAfter == ScenariosIn(stockStore', warrantStore')

HookRows == useScenarioCalculations_scenarioResults(PositionIn(stockStore, warrantStore), ScenariosBefore, warrantStore.feeSettings, storeInUse = "warrant")

PageRows == AnalysisPage_scenarioResults(PositionIn(stockStore, warrantStore), ScenariosBefore, storeInUse = "warrant")

RowsFollow(rows, scenarios) ==
    /\ Len(rows) = Len(scenarios)
    /\ \A i \in 1..Len(scenarios) : rows[i].id = scenarios[i].id /\ rows[i].sellPrice = scenarios[i].sellPrice

RECURSIVE Without(_, _)
Without(scenarios, id) ==
    IF scenarios = <<>> THEN <<>>
    ELSE IF Head(scenarios).id = id THEN Without(Tail(scenarios), id)
    ELSE <<Head(scenarios)>> \o Without(Tail(scenarios), id)

NoCurrentSymbol == storeInUse = "stock" /\ FalsyString(stockStore.currentSymbol)

AddedLast ==
    IF NoCurrentSymbol THEN ScenariosAfter = ScenariosBefore
    ELSE /\ Len(ScenariosAfter) = Len(ScenariosBefore) + 1
         /\ SubSeq(ScenariosAfter, 1, Len(ScenariosBefore)) = ScenariosBefore

OthersKept ==
    /\ Len(ScenariosAfter) = Len(ScenariosBefore)
    /\ \E id \in StockScenarioIds(stockStore) \cup WarrantScenarioIds(warrantStore) :
          \A i \in 1..Len(ScenariosBefore) : ScenariosBefore[i].id # id => ScenariosAfter[i] = ScenariosBefore[i]

RemovedExactly == \E id \in StockScenarioIds(stockStore) \cup WarrantScenarioIds(warrantStore) : ScenariosAfter = Without(ScenariosBefore, id)

RowsInOrder == PositionIn(stockStore, warrantStore) # Null => RowsFollow(HookRows, ScenariosBefore) /\ RowsFollow(PageRows, ScenariosBefore)

OrderKept ==
    /\ StockAddScenario \/ WarrantAddScenario => AddedLast
    /\ StockUpdateScenario \/ WarrantUpdateScenario => OthersKept
    /\ StockRemoveScenario \/ WarrantRemoveScenario => RemovedExactly

----------------------------------------------------------------------------
(* C23: isNearExpiration(daysToMaturity, warningDays) returns false for    *)
(* every negative daysToMaturity (unknown maturity), and for               *)
(* daysToMaturity >= 0 returns true exactly when daysToMaturity <=         *)
(* warningDays, warningDays being 14 when it is not supplied.              *)
C23_NearExpiration ==
    Done("isNearExpiration") =>
        LET days == args.daysToMaturity
            warning == IF args.warningDays = Undefined THEN N(14) ELSE args.warningDays
        IN  /\ Lt(days, N(0)) => ret.near = FALSE
            /\ Ge(days, N(0)) => (ret.near <=> Le(days, warning))

(* C23 witness: unknown maturity (-1 day) asked with a warning threshold   *)
(* that a plain comparison would pass, and answered false.                 *)
C23_Witness ==
    /\ Done("isNearExpiration")
    /\ args.daysToMaturity = N(-1)
    /\ args.warningDays = Undefined
    /\ ret.near = FALSE

----------------------------------------------------------------------------
(* The calculations module called again and again while the clock runs.   *)
(* The module has no variables of its own (only `const` declarations), so  *)
(* the only state a call can read besides its arguments is the clock.      *)

CoreInit ==
    /\ CallIdle
    /\ CoreIdle
    /\ HookIdle
    /\ ClockIdle
    /\ now = 0
    /\ storeInUse = "none"
    /\ stockStore = useStockStore_initialState
    /\ warrantStore = useWarrantStore_initialState

coreCallFrame == <<now, earlier, nonCoreVars>>

CoreTick ==
    /\ \E t \in CoreInstants : t > now /\ now' = t
    /\ UNCHANGED <<callVars, earlier, nonCoreVars>>

\* the observer keeps the call that has just returned
Observe ==
    /\ pc = "done"
    /\ earlier' = [args |-> args, ret |-> ret]
    /\ UNCHANGED <<callVars, now, nonCoreVars>>

CoreCalculateFees ==
    /\ \E c \in CoreCallsOf("calculateFees") : args' = c /\ ret' = calculateFees(c.buyValue, c.sellValue, c.buyFeePercent, c.sellFeePercent)
    /\ pc' = "done"
    /\ UNCHANGED coreCallFrame

CoreCalculateTax ==
    /\ \E c \in CoreCallsOf("calculateTax") : args' = c /\ ret' = calculateTax(c.sellValue, c.taxPercent)
    /\ pc' = "done"
    /\ UNCHANGED coreCallFrame

CoreCalculateCost ==
    /\ \E c \in CoreCallsOf("calculateCost") : args' = c /\ ret' = calculateCost(c.buyPrice, c.quantity, c.buyFeePercent)
    /\ pc' = "done"
    /\ UNCHANGED coreCallFrame

CoreCalculateRevenue ==
    /\ \E c \in CoreCallsOf("calculateRevenue") : args' = c /\ ret' = calculateRevenue(c.sellPrice, c.quantity, c.sellFeePercent, c.taxPercent)
    /\ pc' = "done"
    /\ UNCHANGED coreCallFrame

CoreCalculateProfitLoss ==
    /\ \E c \in CoreCallsOf("calculateProfitLoss") : args' = c /\ ret' = calculateProfitLoss(c.buyPrice, c.sellPrice, c.quantity, c.buyFeePercent, c.sellFeePercent, c.taxPercent)
    /\ pc' = "done"
    /\ UNCHANGED coreCallFrame

CoreCalculateBreakEven ==
    /\ \E c \in CoreCallsOf("calculateBreakEven") : args' = c /\ ret' = calculateBreakEven(c.cwPrice, c.conversionRatio, c.exercisePrice, c.targetUnderlyingPrice)
    /\ pc' = "done"
    /\ UNCHANGED coreCallFrame

CoreCalculateExerciseValue ==
    /\ \E c \in CoreCallsOf("calculateExerciseValue") : args' = c /\ ret' = calculateExerciseValue(c.underlyingPrice, c.exercisePrice, c.conversionRatio, c.currentCwPrice, c.quantity, c.buyPrice, c.buyFeePercent)
    /\ pc' = "done"
    /\ UNCHANGED coreCallFrame

CoreCalculateScenario ==
    /\ \E c \in CoreCallsOf("calculateScenario") : args' = c /\ ret' = calculateScenario(c.position, c.scenario)
    /\ pc' = "done"
    /\ UNCHANGED coreCallFrame

CoreAnalyzeWarrant ==
    /\ \E c \in CoreCallsOf("analyzeWarrant") : args' = c /\ ret' = analyzeWarrant(c.position, c.scenarios, c.warrantInfo, c.targetUnderlyingPrice)
    /\ pc' = "done"
    /\ UNCHANGED coreCallFrame

CoreIsNearExpiration ==
    /\ \E c \in CoreCallsOf("isNearExpiration") : args' = c /\ ret' = [near |-> isNearExpiration(c.daysToMaturity, c.warningDays)]
    /\ pc' = "done"
    /\ UNCHANGED coreCallFrame

CoreCalculateDaysToMaturity ==
    /\ \E c \in CoreCallsOf("calculateDaysToMaturity") : args' = c /\ ret' = [days |-> calculateDaysToMaturity(c.expirationDate, now)]
    /\ pc' = "done"
    /\ UNCHANGED coreCallFrame

CoreNext ==
    \/ CoreTick
    \/ Observe
    \/ CoreCalculateFees
    \/ CoreCalculateTax
    \/ CoreCalculateCost
    \/ CoreCalculateRevenue
    \/ CoreCalculateProfitLoss
    \/ CoreCalculateBreakEven
    \/ CoreCalculateExerciseValue
    \/ CoreCalculateScenario
    \/ CoreAnalyzeWarrant
    \/ CoreIsNearExpiration
    \/ CoreCalculateDaysToMaturity

CoreSpec == CoreInit /\ [][CoreNext]_vars

(* C24: the core holds no hidden state: calling any function of the        *)
(* calculation module twice with identical arguments yields identical      *)
(* outputs, whatever other calls were made and however much time elapsed   *)
(* in between.                                                             *)
C24_SameArgumentsSameOutput ==
    pc = "done" /\ earlier # Null /\ earlier.args = args => earlier.ret = ret

(* C24 without the function that reads the clock: every other function of *)
(* the module returns the same output for the same arguments.             *)
PureCallsRepeat ==
    pc = "done" /\ earlier # Null /\ earlier.args = args /\ args.fn # "calculateDaysToMaturity" => earlier.ret = ret

----------------------------------------------------------------------------
StockEditStep ==
    \/ StockSetPosition
    \/ StockUpdatePosition
    \/ StockAddScenario
    \/ StockUpdateScenario
    \/ StockRemoveScenario
    \/ StockClearScenarios

CacheKeys == DOMAIN stockStore.symbolDataCache \cup DOMAIN stockStore'.symbolDataCache

OtherEntriesKept ==
    \A k \in CacheKeys : k # stockStore.currentSymbol => ObjectGet(stockStore'.symbolDataCache, k) = ObjectGet(stockStore.symbolDataCache, k)

\* what the store and the page show once `symbol` is the current symbol
ShownFor(s, symbol) ==
    [position |-> useStockStore_position(useStockStore_setCurrentSymbol(s, symbol)),
     scenarios |-> useStockStore_scenarios(useStockStore_setCurrentSymbol(s, symbol)),
     pagePosition |-> AnalysisPage_position(s, symbol),
     pageScenarios |-> AnalysisPage_scenarios(s, symbol)]

StockFrame ==
    /\ StockEditStep => OtherEntriesKept
    /\ StockEditStep /\ FalsyString(stockStore.currentSymbol) => stockStore'.symbolDataCache = stockStore.symbolDataCache
    /\ StockSetCurrentSymbol => stockStore'.symbolDataCache = stockStore.symbolDataCache
    /\ StockSetCurrentSymbol => \A symbol \in StoreSymbols : ShownFor(stockStore', symbol) = ShownFor(stockStore, symbol)

(* C25: in the stock store every position/scenario action (setPosition,    *)
(* updatePosition, addScenario, updateScenario, removeScenario,            *)
(* clearScenarios) changes at most the cache entry of the current symbol:  *)
(* the entries of all other symbols are unchanged and the whole cache is   *)
(* unchanged when there is no current symbol; setCurrentSymbol never       *)
(* changes the cache, so every symbol shows the same position and          *)
(* scenarios after switching away from it and back as before.              *)
C25_OnlyCurrentSymbolChanges == [][StockFrame]_vars

(* C25 witness: FPT holds a position and a scenario, the user has switched *)
(* to HPG and added a scenario there.                                      *)
C25_Witness ==
    /\ storeInUse = "stock"
    /\ stockStore.currentSymbol = "HPG"
    /\ AnalysisPage_position(stockStore, "FPT") # Null
    /\ Len(AnalysisPage_scenarios(stockStore, "FPT")) = 1
    /\ Len(AnalysisPage_scenarios(stockStore, "HPG")) = 1

----------------------------------------------------------------------------
(* The component using useLocalStorage: mount, effects, renders, and the   *)
(* component's calls of setValue and removeValue                           *)

HookInit ==
    /\ localStorage \in StorageItems
    /\ initialValue \in InitialValues
    /\ mounted = FALSE
    /\ storedValue = initialValue
    /\ isHydrated = FALSE
    /\ updateQueue = <<>>
    /\ pendingEffects = <<>>
    /\ lastCall = "none"
    /\ CallIdle
    /\ StoreIdle
    /\ CoreIdle
    /\ ClockIdle

HookState == [storedValue |-> storedValue, isHydrated |-> isHydrated]

\* first render and commit: useState(initialValue), useState(false)
Mount ==
    /\ ~mounted
    /\ mounted' = TRUE
    /\ storedValue' = initialValue
    /\ isHydrated' = FALSE
    /\ pendingEffects' = EffectsOnMount([storedValue |-> initialValue, isHydrated |-> FALSE])
    /\ UNCHANGED <<localStorage, initialValue, updateQueue, lastCall, nonHookVars>>

HydrationEffect ==
    /\ pendingEffects # <<>>
    /\ Head(pendingEffects).effect = "hydration"
    /\ updateQueue' = updateQueue \o useLocalStorage_hydrationEffect(localStorage)
    /\ pendingEffects' = Tail(pendingEffects)
    /\ UNCHANGED <<localStorage, initialValue, mounted, storedValue, isHydrated, lastCall, nonHookVars>>

SaveEffect ==
    /\ pendingEffects # <<>>
    /\ Head(pendingEffects).effect = "save"
    /\ localStorage' = useLocalStorage_saveEffect(Head(pendingEffects), localStorage)
    /\ pendingEffects' = Tail(pendingEffects)
    /\ UNCHANGED <<initialValue, mounted, storedValue, isHydrated, updateQueue, lastCall, nonHookVars>>

\* a re-render: the effects of the previous commit have run, the queued
\* updates are applied, and the commit schedules the effects that follow
Render ==
    /\ mounted
    /\ pendingEffects = <<>>
    /\ updateQueue # <<>>
    /\ storedValue' = RenderState(HookState, updateQueue, MaxStored).storedValue
    /\ isHydrated' = RenderState(HookState, updateQueue, MaxStored).isHydrated
    /\ pendingEffects' = EffectsOnUpdate(HookState, RenderState(HookState, updateQueue, MaxStored))
    /\ updateQueue' = <<>>
    /\ UNCHANGED <<localStorage, initialValue, mounted, lastCall, nonHookVars>>

SetValue ==
    /\ mounted
    /\ Len(updateQueue) < MaxUpdates
    /\ \E value \in StoredValues : updateQueue' = updateQueue \o useLocalStorage_setValue(value)
    /\ lastCall' = "setValue"
    /\ UNCHANGED <<localStorage, initialValue, mounted, storedValue, isHydrated, pendingEffects, nonHookVars>>

SetValueWith ==
    /\ mounted
    /\ Len(updateQueue) < MaxUpdates
    /\ \E updater \in Updaters : updateQueue' = updateQueue \o useLocalStorage_setValueWith(updater)
    /\ lastCall' = "setValue"
    /\ UNCHANGED <<localStorage, initialValue, mounted, storedValue, isHydrated, pendingEffects, nonHookVars>>

RemoveValue ==
    /\ mounted
    /\ Len(updateQueue) < MaxUpdates
    /\ localStorage' = useLocalStorage_removeValue(initialValue).item
    /\ updateQueue' = updateQueue \o useLocalStorage_removeValue(initialValue).updates
    /\ lastCall' = "removeValue"
    /\ UNCHANGED <<initialValue, mounted, storedValue, isHydrated, pendingEffects, nonHookVars>>

HookNext ==
    \/ Mount
    \/ HydrationEffect
    \/ SaveEffect
    \/ Render
    \/ SetValue
    \/ SetValueWith
    \/ RemoveValue

HookSpec == HookInit /\ [][HookNext]_vars

\* every queued update is applied and every scheduled effect has run
EffectsSettled == mounted /\ updateQueue = <<>> /\ pendingEffects = <<>>

(* C26: after removeValue is called and all pending React effects have     *)
(* run, localStorage holds no item under the key and the hook's value is   *)
(* initialValue, whatever value was stored before.                         *)
C26_RemoveValueClearsStorage ==
    (EffectsSettled /\ lastCall = "removeValue") => (localStorage = NullString /\ storedValue = initialValue)

\* the hydration effect of the mount has run: the key has been read
KeyRead == mounted /\ (pendingEffects = <<>> \/ Head(pendingEffects).effect # "hydration")

\* a step that puts a new item under the key: setItem, which only the
\* save effect calls
StorageWritten == localStorage' # localStorage /\ localStorage' # NullString

\* the hook writes only after the read
WriteAfterRead == StorageWritten => KeyRead

\* until the render that commits isHydrated nothing is written under the
\* key: the item stays, or the component's own removeValue removes it
KeptDuringHydration == ~isHydrated => (localStorage' = localStorage \/ localStorage' = NullString)

\* the render that completes hydration, the component having made no call
HydrationCompletes == ~isHydrated /\ isHydrated' /\ lastCall = "none"

\* at that render the hook's value is the value parsed from the item
StoredValueRestored ==
    (HydrationCompletes /\ localStorage # NullString /\ JSONParse(localStorage).ok) => storedValue' = JSONParse(localStorage).value

(* C27: useLocalStorage never writes to localStorage before it has read    *)
(* the key on mount: a value already stored under the key is never         *)
(* overwritten by initialValue during hydration, and once hydration        *)
(* completes the hook's value equals the previously stored value whenever  *)
(* one existed and parsed.                                                 *)
C27_NoWriteBeforeRead == [][WriteAfterRead]_vars /\ [][KeptDuringHydration]_vars /\ [][StoredValueRestored]_vars

\* an item " 1" was read on mount, the hook's value became 1 instead of the
\* initial 0, and the save effect has then written it back as "1"
C27_Witness ==
    /\ EffectsSettled
    /\ isHydrated
    /\ lastCall = "none"
    /\ initialValue = 0
    /\ storedValue = 1
    /\ localStorage = JSONStringify(1)

----------------------------------------------------------------------------
(* The trading-hours functions called at any instant of the week           *)

ClockInit ==
    /\ wallClock \in ClockInstants
    /\ CallIdle
    /\ StoreIdle
    /\ CoreIdle
    /\ HookIdle

\* time passes
ClockAdvance ==
    /\ pc = "idle"
    /\ \E later \in ClockInstants \ {wallClock} : wallClock' = later
    /\ UNCHANGED <<callVars, nonClockVars>>

ClockIsMarketOpen ==
    /\ pc = "idle"
    /\ pc' = "done"
    /\ args' = [fn |-> "isMarketOpen"]
    /\ ret' = [open |-> isMarketOpen(wallClock)]
    /\ UNCHANGED <<wallClock, nonClockVars>>

ClockGetPollingInterval ==
    /\ pc = "idle"
    /\ pc' = "done"
    /\ \E intervalMs \in PollingIntervals : args' = [fn |-> "getPollingInterval", intervalMs |-> intervalMs] /\ ret' = getPollingInterval(wallClock, intervalMs)
    /\ UNCHANGED <<wallClock, nonClockVars>>

ClockGetTimeUntilMarketOpen ==
    /\ pc = "idle"
    /\ pc' = "done"
    /\ args' = [fn |-> "getTimeUntilMarketOpen"]
    /\ ret' = [ms |-> getTimeUntilMarketOpen(wallClock)]
    /\ UNCHANGED <<wallClock, nonClockVars>>

ClockReturn ==
    /\ pc = "done"
    /\ pc' = "idle"
    /\ args' = Null
    /\ ret' = NoRet
    /\ UNCHANGED <<wallClock, nonClockVars>>

ClockNext ==
    \/ ClockAdvance
    \/ ClockIsMarketOpen
    \/ ClockGetPollingInterval
    \/ ClockGetTimeUntilMarketOpen
    \/ ClockReturn

ClockSpec == ClockInit /\ [][ClockNext]_vars

\* the instant now + result
InstantAfter(ms) == wallClock + ms \div MsPerMinute

\* 09:00 on a weekday
WeekdayOpening(date) ==
    /\ date % MinutesPerDay = MARKET_OPEN_HOUR * 60
    /\ isMarketOpen(date)

TimeUntilOpenReturned == pc = "done" /\ args.fn = "getTimeUntilMarketOpen"

(* C28: getTimeUntilMarketOpen returns 0 exactly when isMarketOpen is true *)
(* and otherwise returns a positive duration to the next market opening:   *)
(* for every day of week and hour, the instant now + result is 09:00       *)
(* Vietnam time on a weekday, a moment at which isMarketOpen is true.      *)
C28_TimeUntilOpenReachesOpening ==
    TimeUntilOpenReturned =>
        /\ (ret.ms = 0) <=> isMarketOpen(wallClock)
        /\ ~isMarketOpen(wallClock) => (ret.ms > 0 /\ WeekdayOpening(InstantAfter(ret.ms)))

----------------------------------------------------------------------------
\* a row computed for a target equal to the current underlying price, of a
\* warrant with a conversion ratio that trades at or above intrinsic value
ResellRow ==
    /\ pc = "done"
    /\ args.fn = "calculateWarrantMetrics"
    /\ Gt(args.warrant.conversion_ratio, N(0))
    /\ args.targetPrice = args.underlyingPrice
    /\ Ge(args.warrant.current_price, currentIntrinsicValue(args.warrant, args.underlyingPrice))

\* the same for a row of the page that computes its rows inline
ResellPageRow ==
    /\ pc = "done"
    /\ args.fn = "WarrantsPage.tableData"
    /\ Gt(args.warrant.conversion_ratio, N(0))
    /\ args.targetPrice = args.underlyingPrice
    /\ Ge(args.warrant.current_price, currentIntrinsicValue(args.warrant, args.underlyingPrice))

\* the row's netRevenue is the one of its estimated sell price
SellPriceOfRow == ret.netRevenue = netRevenueAt(estimatedSellPrice(args.warrant, args.underlyingPrice, args.targetPrice), args.quantity, args.feeSettings)

SellPriceAtMostPrice ==
    /\ Le(estimatedSellPrice(args.warrant, args.underlyingPrice, args.targetPrice), args.warrant.current_price)
    /\ args.warrant.days_to_maturity > 30 => estimatedSellPrice(args.warrant, args.underlyingPrice, args.targetPrice) = args.warrant.current_price

(* C29: buying and immediately reselling is never projected as profitable: *)
(* for a row with conversionRatio > 0 whose targetPrice equals the current *)
(* underlying price and whose warrant price is at least its intrinsic      *)
(* value, the estimated sell price is <= the warrant price for every       *)
(* daysToMaturity (equal when daysToMaturity > 30), the row has            *)
(* estimatedProfit <= 0 and the 'profitable' filter does not keep it.      *)
C29_ResellNeverProfitable ==
    /\ ResellRow =>
          /\ SellPriceOfRow
          /\ SellPriceAtMostPrice
          /\ Le(ret.estimatedProfit, N(0))
          /\ filterWarrantsByProfitability(<<ret>>, "profitable") = <<>>
    /\ ResellPageRow =>
          /\ Le(ret.estimatedProfit, N(0))
          /\ WarrantsPage_filter(<<ret>>, "profitable") = <<>>

\* a warrant with more than 30 days left that carries time value, bought
\* and resold at the same underlying price: sold at its price, at a loss
C29_Witness ==
    /\ ResellRow
    /\ args.warrant.days_to_maturity > 30
    /\ Gt(currentTimeValue(args.warrant, args.underlyingPrice), N(0))
    /\ Gt(currentIntrinsicValue(args.warrant, args.underlyingPrice), N(0))
    /\ Gt(args.quantity, N(0))
    /\ Lt(ret.estimatedProfit, N(0))

----------------------------------------------------------------------------
\* a finished run of either screener
ScreenerDone == pc = "done" /\ args.fn \in {"useWarrantCalculations", "WarrantsPage"}

\* row i has the least breakEven of the table and no earlier row has it
FirstMinimum(tableData, i) ==
    /\ \A j \in 1..Len(tableData) : Le(tableData[i].breakEven, tableData[j].breakEven)
    /\ \A j \in 1..(i - 1) : Lt(tableData[i].breakEven, tableData[j].breakEven)

(* C30: bestBreakEvenWarrant is null exactly when the filtered and sorted  *)
(* screener table is empty; otherwise it is a row of that table whose      *)
(* breakEven is <= the breakEven of every other row, and among the rows    *)
(* with the minimum breakEven it is the one that appears first.            *)
C30_BestBreakEvenIsFirstMinimum ==
    ScreenerDone =>
        /\ (ret.bestBreakEvenWarrant = Null) <=> (Len(ret.tableData) = 0)
        /\ Len(ret.tableData) > 0 => \E i \in 1..Len(ret.tableData) : FirstMinimum(ret.tableData, i) /\ ret.bestBreakEvenWarrant = ret.tableData[i]

\* the hook's table holds two rows with the least breakEven and a third
\* row, and the earlier of the two is the best one
C30_Witness ==
    /\ ScreenerDone
    /\ args.fn = "useWarrantCalculations"
    /\ Len(ret.tableData) = 3
    /\ \E i, j \in 1..3 :
          /\ i < j
          /\ ret.tableData[i].breakEven = ret.tableData[j].breakEven
          /\ FirstMinimum(ret.tableData, i)
          /\ ret.bestBreakEvenWarrant = ret.tableData[i]
          /\ ret.bestBreakEvenWarrant # ret.tableData[j]

====
